---- MODULE Spec2Model ----
(***************************************************************************)
(* Verification model of the macbook12-spi-driver repository:              *)
(*   - the SPI keyboard driver's command queue (src/applespi.c)            *)
(*   - the touch bar mode/display controller (src/unnamed/part_000)        *)
(***************************************************************************)
EXTENDS Integers, Sequences, FiniteSets, TLC

(***************************************************************************)
(* Part 1: applespi command queue                                          *)
(***************************************************************************)

VARIABLES
    init_cmd_idx,       \* applespi_data.init_cmd_idx
    want_cl_led_on,     \* applespi_data.want_cl_led_on
    have_cl_led_on,     \* applespi_data.have_cl_led_on
    want_bl_level,      \* applespi_data.want_bl_level
    have_bl_level,      \* applespi_data.have_bl_level
    cmd_msg_cntr,       \* applespi_data.cmd_msg_cntr (its low 8 bits)
    cmd_msg_queued,     \* applespi_data.cmd_msg_queued
    cmd_log_mask,       \* applespi_data.cmd_log_mask
    tx_buffer,          \* applespi_data.tx_buffer, the fields the code writes
    drain,              \* applespi_data.drain
    read_active,        \* applespi_data.read_active
    write_active,       \* applespi_data.write_active
    wr_m,               \* write messages handed to spi_async, callback pending
    rd_m,               \* read messages handed to spi_async, callback pending
    gpe_enabled,        \* GPE enabled (acpi_enable_gpe / acpi_disable_gpe)
    gpe_masked,         \* level-triggered GPE in service until acpi_finish_gpe
    resp_owed,          \* the device has a command response to deliver
    rd_pc,              \* position of the read-completion callback
    rm_pc,              \* position of applespi_remove
    wr_err,             \* history: some write was rejected or ended badly
    last_keys_pressed,      \* applespi_data.last_keys_pressed[]
    last_keys_fn_pressed,   \* applespi_data.last_keys_fn_pressed[]
    kbd_last_fn_pressed,    \* applespi_data.last_fn_pressed
    keyboard_input_dev,     \* keys that keyboard_input_dev holds as down
    touchpad_input_dev,     \* contacts that report_tp_state has reported
                            \* to touchpad_input_dev for the last packet
    scancodes_read,         \* indexes at which the last keyboard report has
                            \* made applespi_code_to_key read
                            \* applespi_scancodes
    dev_seq                 \* sequence value of the caps-lock or backlight
                            \* command that spi_async accepted last: SeqNone
                            \* before the first, SeqOff where the
                            \* specification does not follow the values


spiVars == <<init_cmd_idx, want_cl_led_on, have_cl_led_on, want_bl_level,
             have_bl_level, cmd_msg_cntr, cmd_msg_queued, cmd_log_mask,
             tx_buffer, drain, read_active, write_active, wr_m, rd_m,
             gpe_enabled, gpe_masked, resp_owed, rd_pc, rm_pc, wr_err,
             last_keys_pressed, last_keys_fn_pressed, kbd_last_fn_pressed,
             keyboard_input_dev, touchpad_input_dev, scancodes_read,
             dev_seq>>

\* the keyboard and touchpad state of the driver
kbdVars == <<last_keys_pressed, last_keys_fn_pressed, kbd_last_fn_pressed,
             keyboard_input_dev, touchpad_input_dev, scancodes_read>>

\* ---- touch bar controller state (struct appletb_device) -----------------
VARIABLES
    active,                 \* appletb_device.active
    mode_hdev,              \* mode_info.hdev is bound
    disp_hdev,              \* disp_info.hdev is bound
    last_tb_keys_pressed,   \* appletb_device.last_tb_keys_pressed[]
    last_fn_pressed,        \* appletb_device.last_fn_pressed
    elapsed,                \* ktime_get() - last_event_time, in seconds
    cur_tb_mode,            \* appletb_device.cur_tb_mode
    pnd_tb_mode,            \* appletb_device.pnd_tb_mode
    cur_tb_disp,            \* appletb_device.cur_tb_disp
    pnd_tb_disp,            \* appletb_device.pnd_tb_disp
    tb_autopm_off,          \* appletb_device.tb_autopm_off
    restore_autopm,         \* appletb_device.restore_autopm
    tb_work,                \* tb_work: -1 not pending, else seconds to run
    dim_timeout,            \* appletb_device.dim_timeout
    idle_timeout,           \* appletb_device.idle_timeout
    dim_to_is_calc,         \* appletb_device.dim_to_is_calc
    fn_mode,                \* appletb_device.fn_mode
    wk_pc,                  \* position of appletb_set_tb_worker
    wk,                     \* locals of appletb_set_tb_worker
    dev_disp,               \* display state the touch bar device is in
    store_einval,           \* the last sysfs store returned -EINVAL
    mode_suspended,         \* mode_info.suspended
    disp_suspended,         \* disp_info.suspended
    sp,                     \* position and locals of appletb_suspend
    autopm_refs,            \* usb_autopm_get_interface calls on the display
                            \* interface that no put has undone
    upd_pc,                 \* position of an event handler that runs
                            \* step by step
    tbrm_pc,                \* the interface whose appletb_remove is
                            \* sending its commands, or "none"
    tb_lock,                \* the context that holds appletb_device.tb_lock
                            \* between two steps, or "none"
    last_tb_keys_translated, \* appletb_device.last_tb_keys_translated[]
    hr,                     \* appletb_send_hid_report: its position, tries
                            \* and rc, the calls of usb_control_msg it
                            \* has made and the time it has slept last
    tb_input_dev            \* key codes the input device of the touch bar
                            \* holds as down: <<slot, "plain">> for the key
                            \* code of the slot, <<slot, "trnsl">> for its
                            \* special code; InputOff where the
                            \* specification does not follow them

tbVars == <<active, mode_hdev, disp_hdev, last_tb_keys_pressed,
            last_fn_pressed, elapsed, cur_tb_mode, pnd_tb_mode, cur_tb_disp,
            pnd_tb_disp, tb_autopm_off, restore_autopm, tb_work, dim_timeout,
            idle_timeout, dim_to_is_calc, fn_mode, wk_pc, wk, dev_disp,
            store_einval, mode_suspended, disp_suspended, sp, autopm_refs,
            upd_pc, tbrm_pc, tb_lock, last_tb_keys_translated,
            tb_input_dev, hr>>

\* the state of suspend and resume
pmVars == <<mode_suspended, disp_suspended, sp>>

vars == <<spiVars, tbVars>>

\* ---- program constants --------------------------------------------------
MIN_KBD_BL_LEVEL == 32
MAX_KBD_BL_LEVEL == 255
KBD_BL_LEVEL_SCALE == 1000000
KBD_BL_LEVEL_ADJ == ((MAX_KBD_BL_LEVEL - MIN_KBD_BL_LEVEL) * KBD_BL_LEVEL_SCALE) \div 255
NumInitCommands == 1
DBG_CMD_TP_INI == 1
DBG_CMD_BL == 2
DBG_CMD_CL == 4
CntrMod == 256

\* brightness values handed to applespi_set_bl_level: LED_OFF, LED_FULL
BrightnessValues == {0, 255}

PktTypes == {"keyb", "tpad", "write", "unkn"}

\* applespi_set_bl_level: brightness to backlight level
BlLevel(value) ==
    IF value = 0 THEN 0
    ELSE (value * KBD_BL_LEVEL_ADJ) \div KBD_BL_LEVEL_SCALE + MIN_KBD_BL_LEVEL

Min(a, b) == IF a < b THEN a ELSE b
Max(a, b) == IF a > b THEN a ELSE b

\* values of dev_seq that are no sequence value
SeqNone == -1
SeqOff == -2

\* commands rejected by spi_async between two accepted ones, where the
\* sequence values are followed
MaxLost == 2

\* ---- bounds of the keyboard frames -------------------------------------
\* number of key slots of a keyboard frame (MAX_ROLLOVER in the code)
NumRollover == 2
\* largest key code of a keyboard frame; 0 is "no key"
NumCodes == 2

RolloverSlots == 1 .. NumRollover
KeyCodes == 0 .. NumCodes

\* crc16 of <linux/crc16.h> (polynomial 0xA001, bit-reversed); XorBits is
\* the exclusive or of the lowest n bits of two numbers
Bit(a, i) == (a \div 2 ^ i) % 2

RECURSIVE XorBits(_, _, _)
XorBits(a, b, n) ==
    IF n = 0 THEN 0
    ELSE ((Bit(a, n - 1) + Bit(b, n - 1)) % 2) * 2 ^ (n - 1)
         + XorBits(a, b, n - 1)

\* one shift of the register: crc = (crc >> 1) ^ (crc & 1 ? 0xA001 : 0)
Crc16Bit(crc) ==
    IF crc % 2 = 1 THEN XorBits(crc \div 2, 40961, 16) ELSE crc \div 2

\* crc16_table[256]: eight shifts of each byte
crc16_table ==
    [b \in 0 .. 255 |->
        Crc16Bit(Crc16Bit(Crc16Bit(Crc16Bit(
            Crc16Bit(Crc16Bit(Crc16Bit(Crc16Bit(b))))))))]

\* crc16_byte: (crc >> 8) ^ crc16_table[(crc ^ data) & 0xff]
crc16_byte(crc, data) ==
    XorBits(crc \div 256, crc16_table[XorBits(crc, data, 8)], 16)

\* crc16: the bytes buffer[1 .. len] in turn
RECURSIVE crc16(_, _, _)
crc16(crc, buffer, len) ==
    IF len = 0 THEN crc
    ELSE crc16_byte(crc16(crc, buffer, len - 1), buffer[len])

\* the bytes of a keyboard frame that its checksum covers, as far as the
\* model carries them: modifiers (none), keys_pressed[], fn_pressed
FramePayload(keys, fn) ==
    [i \in 1 .. NumRollover + 3 |->
        IF i <= 2 THEN 0
        ELSE IF i <= NumRollover + 2 THEN keys[i - 2]
        ELSE fn]

\* the checksum a sender puts into the frame
FrameCrc(keys, fn) == crc16(0, FramePayload(keys, fn), NumRollover + 3)

\* the keyboard frames that are read: any keys, with the checksum of the
\* payload or with one that differs from it in its lowest bit
KbdFrames ==
    UNION {{[keys_pressed |-> keys, fn_pressed |-> fn,
             crc_16 |-> FrameCrc(keys, fn)],
            [keys_pressed |-> keys, fn_pressed |-> fn,
             crc_16 |-> XorBits(FrameCrc(keys, fn), 1, 16)]} :
              keys \in [RolloverSlots -> KeyCodes], fn \in {0, 1}}

\* the checksum of the frame is the one of its payload
CrcMatches(frame) ==
    frame.crc_16 = FrameCrc(frame.keys_pressed, frame.fn_pressed)

\* a frame without keys
NoKeysFrame ==
    [keys_pressed |-> [i \in RolloverSlots |-> 0], fn_pressed |-> 0,
     crc_16 |-> FrameCrc([i \in RolloverSlots |-> 0], 0)]

InitSpi ==
    /\ init_cmd_idx = 0
    /\ want_cl_led_on = FALSE
    /\ have_cl_led_on = FALSE
    /\ want_bl_level = 0
    /\ have_bl_level = 0
    /\ cmd_msg_cntr = 0
    /\ cmd_msg_queued = FALSE
    /\ cmd_log_mask = 0
    /\ tx_buffer = [kind |-> "none", seq |-> 0, val |-> 0]
    /\ drain = FALSE
    /\ read_active = FALSE
    /\ write_active = FALSE
    /\ wr_m = 0
    /\ rd_m = 0
    /\ gpe_enabled = TRUE
    /\ gpe_masked = FALSE
    /\ resp_owed = FALSE
    /\ rd_pc = "idle"
    /\ rm_pc = "none"
    /\ wr_err = FALSE
    /\ last_keys_pressed = [i \in RolloverSlots |-> 0]
    /\ last_keys_fn_pressed = [i \in RolloverSlots |-> 0]
    /\ kbd_last_fn_pressed = 0
    /\ keyboard_input_dev = {}
    /\ touchpad_input_dev = <<>>
    /\ scancodes_read = {}

\* mutant of Draining: the drain check is missing
DrainingNever == FALSE

\* applespi_send_cmd_msg: "check if draining"
Draining == drain

\* mutant of SendInProgress: the check of cmd_msg_queued is missing
SendInProgressNever(queued) == FALSE

\* applespi_send_cmd_msg: "check whether send is in progress"; queued is
\* cmd_msg_queued as the caller left it
SendInProgress(queued) == queued

\* mutant of NeedBlCmd: a changed backlight level is never noticed
NeedBlCmdNever(wbl) == FALSE

\* applespi_send_cmd_msg: "do we need backlight command?"
NeedBlCmd(wbl) == wbl # have_bl_level

\* mutant of NeedClCmd: a changed caps-lock state is never noticed
NeedClCmdNever(wcl) == FALSE

\* applespi_send_cmd_msg: "do we need caps-lock command?"
NeedClCmd(wcl) == wcl # have_cl_led_on

\* mutant of ClLedByte: the byte is built from the state sent before
ClLedByteStale(wcl) == IF have_cl_led_on THEN 2 ELSE 0

\* applespi_send_cmd_msg: tx_buffer[17] of the caps-lock command, built from
\* have_cl_led_on after it has been set to the wanted state wcl
ClLedByte(wcl) == IF wcl THEN 2 ELSE 0

\* mutant of SeqByte: the counter is not put into the command
SeqByteZero(cntr) == 0

\* applespi_send_cmd_msg: tx_buffer[11] = cmd_msg_cntr++ & 0xff
SeqByte(cntr) == cntr % 256

\* dev_seq after spi_async has returned sts for a command with sequence
\* value seq; led tells a caps-lock or backlight command from an init
\* command
DevSeq(led, seq, sts) ==
    IF dev_seq = SeqOff \/ ~led \/ sts # 0 THEN dev_seq ELSE seq

\* applespi_async + the bookkeeping after it in applespi_send_cmd_msg;
\* sts is the result of spi_async()
AsyncWrite(queued, m, err, sts) ==
    IF sts # 0
    THEN /\ cmd_msg_queued' = queued
         /\ wr_m' = m
         /\ wr_err' = TRUE
         /\ UNCHANGED write_active
    ELSE /\ cmd_msg_queued' = TRUE
         /\ write_active' = TRUE
         /\ wr_m' = m + 1
         /\ wr_err' = err

\* applespi_send_cmd_msg, called with cmd_msg_lock held.  idx, wcl, wbl and
\* queued are init_cmd_idx, want_cl_led_on, want_bl_level and cmd_msg_queued
\* as the caller has just stored them; m is the number of write messages the
\* transport holds; err is the error history; sts is the result of
\* spi_async().
SendCmdMsg(idx, wcl, wbl, queued, m, err, sts) ==
    IF Draining \/ SendInProgress(queued)
    THEN /\ init_cmd_idx' = idx
         /\ cmd_msg_queued' = queued
         /\ wr_m' = m
         /\ wr_err' = err
         /\ UNCHANGED <<have_cl_led_on, have_bl_level, cmd_msg_cntr,
                        cmd_log_mask, tx_buffer, write_active, dev_seq>>
    ELSE IF idx >= 0
    THEN \* are we processing init commands?
         /\ tx_buffer' = [kind |-> "init", seq |-> 0, val |-> idx]
         /\ init_cmd_idx' = IF idx + 1 >= NumInitCommands THEN -1 ELSE idx + 1
         /\ cmd_log_mask' = DBG_CMD_TP_INI
         /\ UNCHANGED <<have_cl_led_on, have_bl_level, cmd_msg_cntr>>
         /\ AsyncWrite(queued, m, err, sts)
         /\ dev_seq' = DevSeq(FALSE, 0, sts)
    ELSE IF NeedClCmd(wcl)
    THEN \* do we need caps-lock command?
         /\ have_cl_led_on' = wcl
         /\ cmd_log_mask' = DBG_CMD_CL
         /\ tx_buffer' = [kind |-> "cl", seq |-> SeqByte(cmd_msg_cntr),
                          val |-> ClLedByte(wcl)]
         /\ cmd_msg_cntr' = (cmd_msg_cntr + 1) % CntrMod
         /\ init_cmd_idx' = idx
         /\ UNCHANGED have_bl_level
         /\ AsyncWrite(queued, m, err, sts)
         /\ dev_seq' = DevSeq(TRUE, SeqByte(cmd_msg_cntr), sts)
    ELSE IF NeedBlCmd(wbl)
    THEN \* do we need backlight command?
         /\ have_bl_level' = wbl
         /\ cmd_log_mask' = DBG_CMD_BL
         /\ tx_buffer' = [kind |-> "bl", seq |-> SeqByte(cmd_msg_cntr),
                          val |-> wbl]
         /\ cmd_msg_cntr' = (cmd_msg_cntr + 1) % CntrMod
         /\ init_cmd_idx' = idx
         /\ UNCHANGED have_cl_led_on
         /\ AsyncWrite(queued, m, err, sts)
         /\ dev_seq' = DevSeq(TRUE, SeqByte(cmd_msg_cntr), sts)
    ELSE \* everything's up-to-date
         /\ init_cmd_idx' = idx
         /\ cmd_msg_queued' = queued
         /\ wr_m' = m
         /\ wr_err' = err
         /\ UNCHANGED <<have_cl_led_on, have_bl_level, cmd_msg_cntr,
                        cmd_log_mask, tx_buffer, write_active, dev_seq>>

\* results of spi_async(): 0, or an error
AsyncSts == {0, -1}

\* applespi_init (probe and resume)
applespi_init ==
    /\ rm_pc = "none"
    /\ \E sts \in AsyncSts :
          SendCmdMsg(0, want_cl_led_on, want_bl_level, cmd_msg_queued,
                     wr_m, wr_err, sts)
    /\ UNCHANGED <<want_cl_led_on, want_bl_level, drain, read_active, rd_m,
                   gpe_enabled, gpe_masked, resp_owed, rd_pc, rm_pc>>
    /\ UNCHANGED kbdVars
    /\ UNCHANGED tbVars

\* applespi_event(EV_LED) -> applespi_set_capsl_led
applespi_set_capsl_led(capslock_on) ==
    /\ rm_pc # "done"
    /\ want_cl_led_on' = capslock_on
    /\ \E sts \in AsyncSts :
          SendCmdMsg(init_cmd_idx, capslock_on, want_bl_level,
                     cmd_msg_queued, wr_m, wr_err, sts)
    /\ UNCHANGED <<want_bl_level, drain, read_active, rd_m, gpe_enabled,
                   gpe_masked, resp_owed, rd_pc, rm_pc>>
    /\ UNCHANGED kbdVars
    /\ UNCHANGED tbVars

\* applespi_set_bl_level
applespi_set_bl_level(value) ==
    /\ rm_pc # "done"
    /\ want_bl_level' = BlLevel(value)
    /\ \E sts \in AsyncSts :
          SendCmdMsg(init_cmd_idx, want_cl_led_on, BlLevel(value),
                     cmd_msg_queued, wr_m, wr_err, sts)
    /\ UNCHANGED <<want_cl_led_on, drain, read_active, rd_m, gpe_enabled,
                   gpe_masked, resp_owed, rd_pc, rm_pc>>
    /\ UNCHANGED kbdVars
    /\ UNCHANGED tbVars

\* applespi_check_write_status: ok is "sts >= 0 and tx_status == sts_ok"
applespi_check_write_status(ok) == ok

\* applespi_async_write_complete: the transport has finished a write and
\* runs the callback.  On a bad status the callback runs
\* applespi_cmd_msg_complete (cmd_msg_queued = false; send the next command).
\* The device answers a command it has accepted with one packet of type
\* write, which a later read delivers.
applespi_async_write_complete(ok) ==
    /\ wr_m > 0
    /\ IF ~applespi_check_write_status(ok)
       THEN /\ \E sts \in AsyncSts :
                 SendCmdMsg(init_cmd_idx, want_cl_led_on, want_bl_level,
                            FALSE, wr_m - 1, TRUE, sts)
            /\ UNCHANGED resp_owed
       ELSE /\ wr_m' = wr_m - 1
            /\ resp_owed' = TRUE
            /\ UNCHANGED <<init_cmd_idx, have_cl_led_on, have_bl_level,
                           cmd_msg_cntr, cmd_msg_queued, cmd_log_mask,
                           tx_buffer, write_active, wr_err, dev_seq>>
    /\ UNCHANGED <<want_cl_led_on, want_bl_level, drain, read_active, rd_m,
                   gpe_enabled, gpe_masked, rd_pc, rm_pc>>
    /\ UNCHANGED kbdVars
    /\ UNCHANGED tbVars

\* applespi_notify: the GPE handler queues a read of one packet
applespi_notify ==
    /\ gpe_enabled /\ ~gpe_masked
    /\ gpe_masked' = TRUE
    /\ \E sts \in AsyncSts :
          IF sts # 0
          THEN UNCHANGED <<rd_m, read_active>>
          ELSE /\ rd_m' = rd_m + 1
               /\ read_active' = TRUE
    /\ UNCHANGED <<init_cmd_idx, want_cl_led_on, have_cl_led_on,
                   want_bl_level, have_bl_level, cmd_msg_cntr, cmd_msg_queued,
                   cmd_log_mask, tx_buffer, drain, write_active, wr_m,
                   gpe_enabled, resp_owed, rd_pc, rm_pc,
                   wr_err, dev_seq>>
    /\ UNCHANGED kbdVars
    /\ UNCHANGED tbVars

\* wake_up_all(&drain_complete): a sleeping applespi_remove re-checks
WakeUpAll(pc) ==
    IF pc = "sleep_write" THEN "chk_write"
    ELSE IF pc = "sleep_read" THEN "chk_read"
    ELSE pc

\* applespi_async_read_complete with rd_m.status < 0: the packet is not
\* processed
applespi_async_read_error ==
    /\ rd_m > 0 /\ rd_pc = "idle"
    /\ rd_m' = rd_m - 1
    /\ gpe_masked' = FALSE
    /\ UNCHANGED <<init_cmd_idx, want_cl_led_on, have_cl_led_on,
                   want_bl_level, have_bl_level, cmd_msg_cntr, cmd_msg_queued,
                   cmd_log_mask, tx_buffer, drain, read_active, write_active,
                   wr_m, gpe_enabled, resp_owed, rd_pc, rm_pc,
                   wr_err, dev_seq>>
    /\ UNCHANGED kbdVars
    /\ UNCHANGED tbVars

\* the fnmode module parameter (its default) and the key code that
\* applespi_fn_codes translates with APPLE_FLAG_FKEY
fnmode == 1
FKeyCode == 2
KEY_RESERVED == <<0, "key">>
KEY_FN == <<0, "fn">>

\* applespi_code_to_key: a key is named by its scan code and by whether the
\* function-key translation was applied; scan code 0 is KEY_RESERVED
applespi_code_to_key(code, fn_pressed) ==
    IF code = FKeyCode
          /\ ((fnmode = 2 /\ fn_pressed # 0) \/ (fnmode = 1 /\ fn_pressed = 0))
    THEN <<code, "to">>
    ELSE <<code, "key">>

\* applespi_handle_keyboard_event, first loop: the slots whose last key is
\* not in the frame
NotStillPressed(frame) ==
    {i \in RolloverSlots :
        \A j \in RolloverSlots :
            last_keys_pressed[i] # frame.keys_pressed[j]}

\* applespi_handle_keyboard_event, second loop: the slots of the frame that
\* hold a key
NowPressed(frame) ==
    {i \in RolloverSlots :
        frame.keys_pressed[i] <= NumCodes /\ frame.keys_pressed[i] > 0}

\* ARRAY_SIZE(applespi_scancodes): the table has the entries 0 .. NumCodes
ScancodesSize == NumCodes + 1

\* slots of the first loop whose last key is no index of applespi_scancodes
BeyondTable(frame) ==
    {i \in NotStillPressed(frame) : last_keys_pressed[i] >= ScancodesSize}

\* applespi_handle_keyboard_event: releases, presses, the fn key, then the
\* copy of the frame's keys; input_report_key drops KEY_RESERVED, which the
\* device does not have.  The frame's crc_16 is not read.  The first loop
\* passes last_keys_pressed[i] to applespi_code_to_key as it is: a read
\* of applespi_scancodes beyond its end yields what lies behind the table,
\* mem[i], which is any key.
applespi_handle_keyboard_event(frame) ==
    \E mem \in [BeyondTable(frame) -> KeyCodes] :
    LET entry(i) == IF i \in BeyondTable(frame) THEN mem[i]
                    ELSE last_keys_pressed[i]
        released ==
            {applespi_code_to_key(entry(i), last_keys_fn_pressed[i]) :
                i \in NotStillPressed(frame)}
        pressed ==
            {applespi_code_to_key(frame.keys_pressed[i], frame.fn_pressed) :
                i \in NowPressed(frame)}
        keys == (keyboard_input_dev \ released) \cup pressed
        withFn ==
            IF frame.fn_pressed # 0 /\ kbd_last_fn_pressed = 0
            THEN keys \cup {KEY_FN}
            ELSE IF frame.fn_pressed = 0 /\ kbd_last_fn_pressed # 0
            THEN keys \ {KEY_FN}
            ELSE keys
    IN  /\ last_keys_fn_pressed' =
            [i \in RolloverSlots |->
                IF i \in NowPressed(frame) THEN frame.fn_pressed
                ELSE IF i \in NotStillPressed(frame) THEN 0
                ELSE last_keys_fn_pressed[i]]
        /\ keyboard_input_dev' = withFn \ {KEY_RESERVED}
        /\ scancodes_read' =
              {last_keys_pressed[i] : i \in NotStillPressed(frame)}
                 \cup {frame.keys_pressed[i] : i \in NowPressed(frame)}
        /\ UNCHANGED touchpad_input_dev
        /\ kbd_last_fn_pressed' = frame.fn_pressed
        /\ last_keys_pressed' = frame.keys_pressed

\* applespi_async_read_complete -> applespi_got_data up to the end of its
\* "handle draining" critical section; type is the packet_type/device of the
\* packet read and frame its keyboard fields.  For a packet that is no
\* command response this is the rest of the callback, which ends with
\* acpi_finish_gpe.
applespi_got_data(type, frame) ==
    /\ rd_m > 0 /\ rd_pc = "idle"
    /\ type = "write" => resp_owed
    /\ IF type = "keyb"
       THEN applespi_handle_keyboard_event(frame)
       ELSE UNCHANGED kbdVars
    /\ rd_m' = rd_m - 1
    /\ resp_owed' = IF type = "write" THEN FALSE ELSE resp_owed
    /\ read_active' = FALSE
    /\ write_active' = IF type = "write" THEN FALSE ELSE write_active
    /\ rm_pc' = IF drain /\ ~write_active' THEN WakeUpAll(rm_pc) ELSE rm_pc
    /\ rd_pc' = IF type = "write" THEN "notify_complete" ELSE "idle"
    /\ gpe_masked' = IF type = "write" THEN gpe_masked ELSE FALSE
    /\ UNCHANGED <<init_cmd_idx, want_cl_led_on, have_cl_led_on,
                   want_bl_level, have_bl_level, cmd_msg_cntr, cmd_msg_queued,
                   cmd_log_mask, tx_buffer, drain, wr_m, gpe_enabled,
                   wr_err, dev_seq>>
    /\ UNCHANGED tbVars

\* applespi_got_data, "notify write complete": applespi_cmd_msg_complete,
\* then applespi_async_read_complete's acpi_finish_gpe
applespi_cmd_msg_complete ==
    /\ rd_pc = "notify_complete"
    /\ rd_pc' = "idle"
    /\ gpe_masked' = FALSE
    /\ \E sts \in AsyncSts :
          SendCmdMsg(init_cmd_idx, want_cl_led_on, want_bl_level, FALSE,
                     wr_m, wr_err, sts)
    /\ UNCHANGED <<want_cl_led_on, want_bl_level, drain, read_active, rd_m,
                   gpe_enabled, resp_owed, rm_pc>>
    /\ UNCHANGED kbdVars
    /\ UNCHANGED tbVars

\* applespi_remove: drain = true and the first check of !write_active
applespi_remove_drain ==
    /\ rm_pc = "none"
    /\ drain' = TRUE
    /\ rm_pc' = IF ~write_active THEN "gpe_off" ELSE "sleep_write"
    /\ UNCHANGED <<init_cmd_idx, want_cl_led_on, have_cl_led_on,
                   want_bl_level, have_bl_level, cmd_msg_cntr, cmd_msg_queued,
                   cmd_log_mask, tx_buffer, read_active, write_active, wr_m,
                   rd_m, gpe_enabled, gpe_masked, resp_owed, rd_pc,
                   wr_err, dev_seq>>
    /\ UNCHANGED kbdVars
    /\ UNCHANGED tbVars

\* applespi_remove: wait_event_lock_irq(drain_complete, !write_active) after
\* a wake-up
applespi_remove_wait_write ==
    /\ rm_pc = "chk_write"
    /\ rm_pc' = IF ~write_active THEN "gpe_off" ELSE "sleep_write"
    /\ UNCHANGED <<init_cmd_idx, want_cl_led_on, have_cl_led_on,
                   want_bl_level, have_bl_level, cmd_msg_cntr, cmd_msg_queued,
                   cmd_log_mask, tx_buffer, drain, read_active, write_active,
                   wr_m, rd_m, gpe_enabled, gpe_masked, resp_owed, rd_pc,
                   wr_err, dev_seq>>
    /\ UNCHANGED kbdVars
    /\ UNCHANGED tbVars

\* applespi_remove: acpi_disable_gpe, acpi_remove_gpe_handler
applespi_remove_gpe ==
    /\ rm_pc = "gpe_off"
    /\ gpe_enabled' = FALSE
    /\ rm_pc' = "chk_read"
    /\ UNCHANGED <<init_cmd_idx, want_cl_led_on, have_cl_led_on,
                   want_bl_level, have_bl_level, cmd_msg_cntr, cmd_msg_queued,
                   cmd_log_mask, tx_buffer, drain, read_active, write_active,
                   wr_m, rd_m, gpe_masked, resp_owed, rd_pc,
                   wr_err, dev_seq>>
    /\ UNCHANGED kbdVars
    /\ UNCHANGED tbVars

\* applespi_remove: wait_event_lock_irq(drain_complete, !read_active)
applespi_remove_wait_read ==
    /\ rm_pc = "chk_read"
    /\ rm_pc' = IF ~read_active THEN "done" ELSE "sleep_read"
    /\ UNCHANGED <<init_cmd_idx, want_cl_led_on, have_cl_led_on,
                   want_bl_level, have_bl_level, cmd_msg_cntr, cmd_msg_queued,
                   cmd_log_mask, tx_buffer, drain, read_active, write_active,
                   wr_m, rd_m, gpe_enabled, gpe_masked, resp_owed, rd_pc,
                   wr_err, dev_seq>>
    /\ UNCHANGED kbdVars
    /\ UNCHANGED tbVars

NextSpi ==
    \/ applespi_init
    \/ \E b \in BOOLEAN : applespi_set_capsl_led(b)
    \/ \E v \in BrightnessValues : applespi_set_bl_level(v)
    \/ \E ok \in BOOLEAN : applespi_async_write_complete(ok)
    \/ applespi_notify
    \/ applespi_async_read_error
    \/ \E t \in PktTypes : applespi_got_data(t, NoKeysFrame)
    \/ applespi_cmd_msg_complete
    \/ applespi_remove_drain
    \/ applespi_remove_wait_write
    \/ applespi_remove_gpe
    \/ applespi_remove_wait_read

(***************************************************************************)
(* Part 2: touch bar mode/display controller (src/unnamed/part_000)        *)
(***************************************************************************)

\* ---- program constants --------------------------------------------------
APPLETB_CMD_MODE_ESC == 0
APPLETB_CMD_MODE_FN == 1
APPLETB_CMD_MODE_SPCL == 2
APPLETB_CMD_MODE_OFF == 3
APPLETB_CMD_MODE_NONE == 255
APPLETB_CMD_DISP_ON == 1
APPLETB_CMD_DISP_DIM == 2
APPLETB_CMD_DISP_OFF == 4
APPLETB_CMD_DISP_NONE == 255
APPLETB_FN_MODE_FKEYS == 0
APPLETB_FN_MODE_NORM == 1
APPLETB_FN_MODE_INV == 2
APPLETB_FN_MODE_SPCL == 3
APPLETB_FN_MODE_MAX == APPLETB_FN_MODE_SPCL
APPLETB_MAX_DIM_TIME == 30
\* defaults of the module parameters idle_timeout, dim_timeout and fnmode
appletb_tb_def_idle_timeout == 5 * 60
appletb_tb_def_dim_timeout == -2
appletb_tb_def_fn_mode == APPLETB_FN_MODE_NORM

\* ---- bounds -------------------------------------------------------------
\* number of touch bar key slots tracked (APPLETB_MAX_TB_KEYS in the code)
NumTbKeys == 1
\* largest idle/dim timeout, in seconds, that is configured
MaxTimeout == 1
\* largest idle timeout, in seconds, of the runs that follow the timeout
\* path from On over Dim to Off
MaxIdle == 2
\* largest number of references on the display interface that is counted
MaxRefs == 3

TbSlots == 0 .. (NumTbKeys - 1)
\* values accepted by idle_timeout_store and dim_timeout_store
TimeoutValues == (-2) .. MaxTimeout
\* values of the module parameters idle_timeout and dim_timeout in the runs
\* that follow the timeout path
IdleValues == (-2) .. MaxIdle
FnModes == 0 .. APPLETB_FN_MODE_MAX
\* value of a key event: release, press, autorepeat
KeyValues == {0, 1, 2}
\* results of appletb_send_hid_report: success or an error code
SendResults == {0, -1}
\* events of the keyboard and the touchpad: <<is KEY_FN, value>>
InpEvents == {<<TRUE, 0>>, <<TRUE, 1>>, <<TRUE, 2>>, <<FALSE, 1>>}

\* the worker's locals while it is not running
WkIdle == [pending_mode |-> APPLETB_CMD_MODE_NONE,
           pending_disp |-> APPLETB_CMD_DISP_NONE,
           rc1 |-> 1, rc2 |-> 1,
           next_disp |-> APPLETB_CMD_DISP_NONE, rc |-> 1,
           time_to_off |-> 0, delay |-> -1]

\* appletb_suspend is not running
SpNone == [pc |-> "none", all_suspended |-> FALSE, event |-> "none",
           wait |-> "none"]

\* appletb_send_hid_report is not running
HrIdle == [pc |-> "idle", tries |-> 0, rc |-> 0, attempts |-> 0, slept |-> 0]

\* appletb_alloc_device: kzalloc, nothing bound, no work pending
\* the value of tb_input_dev where the specification does not follow the
\* keys of the input device
InputOff == {<<-1, "off">>}

InitTbSlots(slots, dev) ==
    /\ active = FALSE
    /\ mode_hdev = FALSE
    /\ disp_hdev = FALSE
    /\ last_tb_keys_pressed = [i \in slots |-> FALSE]
    /\ last_fn_pressed = FALSE
    /\ elapsed = 0
    /\ cur_tb_mode = 0
    /\ pnd_tb_mode = 0
    /\ cur_tb_disp = 0
    /\ pnd_tb_disp = 0
    /\ tb_autopm_off = FALSE
    /\ restore_autopm = FALSE
    /\ tb_work = -1
    /\ dim_timeout = 0
    /\ idle_timeout = 0
    /\ dim_to_is_calc = FALSE
    /\ fn_mode = 0
    /\ wk_pc = "idle"
    /\ wk = WkIdle
    /\ dev_disp = APPLETB_CMD_DISP_OFF
    /\ store_einval = FALSE
    /\ mode_suspended = FALSE
    /\ disp_suspended = FALSE
    /\ sp = SpNone
    /\ autopm_refs = 0
    /\ upd_pc = "none"
    /\ tbrm_pc = "none"
    /\ tb_lock = "none"
    /\ last_tb_keys_translated = [i \in slots |-> FALSE]
    /\ tb_input_dev = dev
    /\ hr = HrIdle

\* the model follows the slot of KEY_ESC
InitTb == InitTbSlots(TbSlots, InputOff)

\* mutant of spin_unlock_irqrestore: the lock stays held
spin_unlock_kept(holder) == holder

\* spin_unlock_irqrestore(&tb_dev->tb_lock) at the end of a section that
\* holder has run under the lock
spin_unlock_irqrestore(holder) == "none"

\* appletb_any_tb_key_pressed
appletb_any_tb_key_pressed(keys) == \E idx \in DOMAIN keys : keys[idx]

\* appletb_schedule_tb_update -> schedule_delayed_work: no effect on work
\* that is already pending
appletb_schedule_tb_update(work, secs) == IF work >= 0 THEN work ELSE secs

\* cancel_delayed_work
cancel_delayed_work(work) == -1

\* appletb_get_cur_tb_mode
appletb_get_cur_tb_mode(pnd, cur) ==
    IF pnd # APPLETB_CMD_MODE_NONE THEN pnd ELSE cur

\* appletb_get_cur_tb_disp
appletb_get_cur_tb_disp(pnd, cur) ==
    IF pnd # APPLETB_CMD_DISP_NONE THEN pnd ELSE cur

\* mutant of appletb_get_fn_tb_mode: the table as documented with
\* APPLETB_FN_MODE_FKEYS and APPLETB_FN_MODE_SPCL exchanged
appletb_get_fn_tb_mode_swapped(fnm, fn) ==
    IF fnm = APPLETB_FN_MODE_FKEYS THEN APPLETB_CMD_MODE_SPCL
    ELSE IF fnm = APPLETB_FN_MODE_SPCL THEN APPLETB_CMD_MODE_FN
    ELSE IF fnm = APPLETB_FN_MODE_INV
         THEN (IF fn THEN APPLETB_CMD_MODE_SPCL ELSE APPLETB_CMD_MODE_FN)
    ELSE (IF fn THEN APPLETB_CMD_MODE_FN ELSE APPLETB_CMD_MODE_SPCL)

\* appletb_get_fn_tb_mode
appletb_get_fn_tb_mode(fnm, fn) ==
    IF fnm = APPLETB_FN_MODE_FKEYS THEN APPLETB_CMD_MODE_FN
    ELSE IF fnm = APPLETB_FN_MODE_SPCL THEN APPLETB_CMD_MODE_SPCL
    ELSE IF fnm = APPLETB_FN_MODE_INV
         THEN (IF fn THEN APPLETB_CMD_MODE_SPCL ELSE APPLETB_CMD_MODE_FN)
    ELSE (IF fn THEN APPLETB_CMD_MODE_FN ELSE APPLETB_CMD_MODE_SPCL)

\* appletb_update_touchbar_no_lock, "calculate the new modes": want_mode
want_mode(idle, fnm, fn) ==
    IF idle = -2 THEN APPLETB_CMD_MODE_OFF
    ELSE appletb_get_fn_tb_mode(fnm, fn)

\* mutant of want_disp: the dim_timeout == 0 case is missing
want_disp_no_dim(idle, dim) ==
    IF idle = -2 THEN APPLETB_CMD_DISP_OFF
    ELSE IF idle = 0 THEN APPLETB_CMD_DISP_OFF
    ELSE APPLETB_CMD_DISP_ON

\* appletb_update_touchbar_no_lock, "calculate the new modes": want_disp
want_disp(idle, dim) ==
    IF idle = -2 THEN APPLETB_CMD_DISP_OFF
    ELSE IF idle = 0 THEN APPLETB_CMD_DISP_OFF
    ELSE IF dim = 0 THEN APPLETB_CMD_DISP_DIM
    ELSE APPLETB_CMD_DISP_ON

\* mutant of ModeSwitchAllowed: pressed keys do not hold back a mode switch
ModeSwitchAlways(keys) == TRUE

\* appletb_update_touchbar_no_lock: condition on the keys for a mode switch
ModeSwitchAllowed(keys) == ~appletb_any_tb_key_pressed(keys)

\* mutant of DispSwitchAllowed: pressed keys do not hold back the display
DispSwitchAlways(keys, wd) == TRUE

\* appletb_update_touchbar_no_lock: condition on the keys for a display
\* switch to wd
DispSwitchAllowed(keys, wd) ==
    \/ ~appletb_any_tb_key_pressed(keys)
    \/ (appletb_any_tb_key_pressed(keys) /\ wd # APPLETB_CMD_DISP_OFF)

\* mutant of NeedUpdate: force does not schedule the worker
NeedUpdateUnforced(force, set_mode, set_disp) == set_mode \/ set_disp

\* appletb_update_touchbar_no_lock: need_update
NeedUpdate(force, set_mode, set_disp) == set_mode \/ set_disp \/ force

\* appletb_update_touchbar_no_lock, called with tb_lock held: the values
\* it leaves in pnd_tb_mode and pnd_tb_disp and the state of tb_work.
\* keys, fn, idle, dim, fnm, cm and cd are last_tb_keys_pressed,
\* last_fn_pressed, idle_timeout, dim_timeout, fn_mode, cur_tb_mode and
\* cur_tb_disp as the caller has just stored them.
appletb_update_touchbar_no_lock(force, keys, fn, idle, dim, fnm, cm, cd) ==
    LET wm == want_mode(idle, fnm, fn)
        wd == want_disp(idle, dim)
        set_mode == /\ appletb_get_cur_tb_mode(pnd_tb_mode, cm) # wm
                    /\ ModeSwitchAllowed(keys)
        set_disp == /\ appletb_get_cur_tb_disp(pnd_tb_disp, cd) # wd
                    /\ DispSwitchAllowed(keys, wd)
    IN  [pnd_tb_mode |-> IF set_mode THEN wm ELSE pnd_tb_mode,
         pnd_tb_disp |-> IF set_disp THEN wd ELSE pnd_tb_disp,
         tb_work |-> IF NeedUpdate(force, set_mode, set_disp)
                     THEN appletb_schedule_tb_update(
                              cancel_delayed_work(tb_work), 0)
                     ELSE tb_work]

\* appletb_update_touchbar: takes tb_lock; nothing happens unless active
appletb_update_touchbar(force, act, keys, fn, idle, dim, fnm, cm, cd) ==
    IF act
    THEN appletb_update_touchbar_no_lock(force, keys, fn, idle, dim, fnm,
                                         cm, cd)
    ELSE [pnd_tb_mode |-> pnd_tb_mode, pnd_tb_disp |-> pnd_tb_disp,
          tb_work |-> tb_work]

\* mutant of IdleDerivedDim: a third of the idle timeout, without the cap
IdleDerivedDimThird(new, calc, dim) ==
    IF calc /\ new > 0 THEN new - new \div 3
    ELSE IF calc THEN -1
    ELSE dim

\* mutant of IdleDerivedDim: the lead of the dim edge is capped at a minute
IdleDerivedDimMinute(new, calc, dim) ==
    IF calc /\ new > 0 THEN new - Min(60, new \div 3)
    ELSE IF calc THEN -1
    ELSE dim

\* appletb_set_idle_timeout: the dim timeout it leaves
IdleDerivedDim(new, calc, dim) ==
    IF calc /\ new > 0 THEN new - Min(APPLETB_MAX_DIM_TIME, new \div 3)
    ELSE IF calc THEN -1
    ELSE dim

\* appletb_set_dim_timeout: dim_to_is_calc and the dim timeout it leaves
DimToIsCalc(new) == new = -2

\* mutant of NewDimTimeout: -2 leaves the dim timeout as it is
NewDimTimeoutKept(new, idle, dim) == IF new = -2 THEN dim ELSE new

NewDimTimeout(new, idle, dim) ==
    IF new = -2 THEN IdleDerivedDim(idle, TRUE, dim) ELSE new

\* appletb_set_tb_disp: tb_autopm_off after the call; cur is cur_tb_disp,
\* off is tb_autopm_off, got is the result of appletb_disable_autopm
TbAutopmOff(disp, cur, off, got) ==
    IF disp # APPLETB_CMD_DISP_OFF /\ cur = APPLETB_CMD_DISP_OFF THEN got
    ELSE IF disp = APPLETB_CMD_DISP_OFF /\ cur # APPLETB_CMD_DISP_OFF
         THEN FALSE
    ELSE off

\* usb_autopm_get_interface on the display interface; got tells whether it
\* succeeded.  Counts of MaxRefs and more are not told apart.
AutopmGet(n, got) == IF got THEN Min(n + 1, MaxRefs) ELSE n

\* usb_autopm_put_interface on the display interface
AutopmPut(n) == n - 1

\* appletb_set_tb_disp: the references held after the call; cur is
\* cur_tb_disp, off is tb_autopm_off, got is the result of
\* appletb_disable_autopm
AutopmRefs(disp, cur, off, got, n) ==
    IF disp # APPLETB_CMD_DISP_OFF /\ cur = APPLETB_CMD_DISP_OFF
    THEN AutopmGet(n, got)
    ELSE IF disp = APPLETB_CMD_DISP_OFF /\ cur # APPLETB_CMD_DISP_OFF /\ off
    THEN AutopmPut(n)
    ELSE n

\* mutant of FlushRunStarts: the wait ends when the run starts
FlushRunStartsOnly(s) ==
    IF s.wait = "queued" THEN [s EXCEPT !.wait = "none"] ELSE s

\* flush_delayed_work in appletb_suspend waits for the worker run that was
\* queued or running when it was called: the run starts, the run ends
FlushRunStarts(s) ==
    IF s.wait = "queued" THEN [s EXCEPT !.wait = "running"] ELSE s

FlushRunEnds(s) ==
    IF s.wait = "running" THEN [s EXCEPT !.wait = "none"] ELSE s

\* appletb_set_tb_disp: the display state of the device after a report
\* that ended with rc
DevDisp(disp, rc) == IF rc = 0 THEN disp ELSE dev_disp

\* appletb_set_tb_worker: idle_time, the time since the last event rounded
\* to seconds; ms is ktime_ms_delta(ktime_get(), last_event_time)
IdleTime(ms) == (ms + 500) \div 1000

\* appletb_set_tb_worker, "calculate time left to next timeout"
MinTimeout(idle, dim) ==
    IF idle = -2 \/ idle = 0 THEN -1
    ELSE IF idle = -1 THEN dim
    ELSE IF dim <= 0 THEN idle
    ELSE Min(dim, idle)

\* mutant of TimeLeft: the time already idle is not taken off
TimeLeftFull(min_timeout, idle_time) ==
    IF min_timeout > 0 THEN min_timeout ELSE 0

TimeLeft(min_timeout, idle_time) ==
    IF min_timeout > 0 THEN Max(min_timeout - idle_time, 0) ELSE 0

\* mutant of TimeToOff: the idle timeout is never taken as reached
TimeToOffNever(min_timeout, idle, idle_time) ==
    IF min_timeout > 0
    THEN IF idle <= 0 THEN -1 ELSE Max(idle - idle_time, 1)
    ELSE 0

TimeToOff(min_timeout, idle, idle_time) ==
    IF min_timeout > 0
    THEN IF idle <= 0 THEN -1
         ELSE IF idle_time >= idle THEN 0
         ELSE idle - idle_time
    ELSE 0

\* appletb_probe of one of the two interfaces; def_idle, def_dim and def_fn
\* are the module parameters; fail: registering the input handler or the
\* sysfs group fails
appletb_probe(iface, def_idle, def_dim, def_fn, fail) ==
    /\ sp.pc = "none"
    /\ IF iface = "mode" THEN ~mode_hdev ELSE ~disp_hdev
    /\ IF (iface = "mode" /\ disp_hdev) \/ (iface = "disp" /\ mode_hdev)
       THEN LET dim1 == IdleDerivedDim(def_idle, dim_to_is_calc, dim_timeout)
                dim2 == NewDimTimeout(def_dim, def_idle, dim1)
                u == appletb_update_touchbar_no_lock(FALSE,
                         last_tb_keys_pressed, last_fn_pressed, def_idle,
                         dim2, def_fn, APPLETB_CMD_MODE_OFF,
                         APPLETB_CMD_DISP_OFF)
            IN  /\ fn_mode' = def_fn
                /\ idle_timeout' = def_idle
                /\ dim_to_is_calc' = DimToIsCalc(def_dim)
                /\ dim_timeout' = dim2
                /\ elapsed' = 0
                /\ cur_tb_mode' = APPLETB_CMD_MODE_OFF
                /\ cur_tb_disp' = APPLETB_CMD_DISP_OFF
                /\ pnd_tb_mode' = u.pnd_tb_mode
                /\ pnd_tb_disp' = u.pnd_tb_disp
                \* mark_inactive: cancel_delayed_work_sync
                /\ tb_work' = IF fail THEN -1 ELSE u.tb_work
                /\ active' = ~fail
                /\ mode_hdev' = IF iface = "mode" THEN ~fail ELSE mode_hdev
                /\ disp_hdev' = IF iface = "disp" THEN ~fail ELSE disp_hdev
       ELSE /\ ~fail
            /\ mode_hdev' = IF iface = "mode" THEN TRUE ELSE mode_hdev
            /\ disp_hdev' = IF iface = "disp" THEN TRUE ELSE disp_hdev
            /\ UNCHANGED <<active, fn_mode, idle_timeout, dim_to_is_calc,
                           dim_timeout, elapsed, cur_tb_mode, cur_tb_disp,
                           pnd_tb_mode, pnd_tb_disp, tb_work>>
    /\ UNCHANGED <<last_tb_keys_pressed, last_fn_pressed, tb_autopm_off,
                   restore_autopm, wk_pc, wk, dev_disp>>
    /\ UNCHANGED <<spiVars, hr, tb_input_dev, tb_lock, last_tb_keys_translated,
                   upd_pc, tbrm_pc, store_einval, pmVars, autopm_refs>>

\* appletb_remove of one of the two interfaces; cancel_delayed_work_sync
\* returns when the worker is not running; rc is the result of
\* appletb_set_tb_disp, got the result of appletb_disable_autopm
appletb_remove(iface, rc, got) ==
    /\ sp.pc = "none"
    /\ IF iface = "mode" THEN mode_hdev ELSE disp_hdev
    /\ IF mode_hdev /\ disp_hdev
       THEN /\ wk_pc = "idle"
            /\ tb_work' = cancel_delayed_work(tb_work)
            /\ dev_disp' = DevDisp(APPLETB_CMD_DISP_ON, rc)
            /\ tb_autopm_off' =
                  TbAutopmOff(APPLETB_CMD_DISP_ON, cur_tb_disp,
                              tb_autopm_off, got)
            /\ active' = FALSE
       ELSE UNCHANGED <<tb_work, dev_disp, tb_autopm_off, active>>
    /\ mode_hdev' = IF iface = "mode" THEN FALSE ELSE mode_hdev
    /\ disp_hdev' = IF iface = "disp" THEN FALSE ELSE disp_hdev
    /\ UNCHANGED <<last_tb_keys_pressed, last_fn_pressed, elapsed,
                   cur_tb_mode, pnd_tb_mode, cur_tb_disp, pnd_tb_disp,
                   restore_autopm, dim_timeout, idle_timeout, dim_to_is_calc,
                   fn_mode, wk_pc, wk>>
    /\ autopm_refs' =
          IF mode_hdev /\ disp_hdev
          THEN LET n == AutopmRefs(APPLETB_CMD_DISP_ON, cur_tb_disp,
                                   tb_autopm_off, got, autopm_refs)
               IN  IF tb_autopm_off' THEN AutopmPut(n) ELSE n
          ELSE autopm_refs
    /\ UNCHANGED <<spiVars, hr, tb_input_dev, tb_lock, last_tb_keys_translated,
                   upd_pc, tbrm_pc, store_einval, pmVars>>

\* appletb_remove of an interface while both are bound, up to the return
\* of cancel_delayed_work_sync, which waits for a running worker
appletb_remove_cancel(iface) ==
    /\ sp.pc = "none"
    /\ tbrm_pc = "none"
    /\ mode_hdev /\ disp_hdev
    /\ wk_pc = "idle"
    /\ tb_work' = cancel_delayed_work(tb_work)
    /\ tbrm_pc' = iface
    /\ UNCHANGED <<active, mode_hdev, disp_hdev, last_tb_keys_pressed,
                   last_fn_pressed, elapsed, cur_tb_mode, pnd_tb_mode,
                   cur_tb_disp, pnd_tb_disp, tb_autopm_off, restore_autopm,
                   dim_timeout, idle_timeout, dim_to_is_calc, fn_mode, wk_pc,
                   wk, dev_disp>>
    /\ UNCHANGED <<spiVars, hr, tb_input_dev, tb_lock, last_tb_keys_translated,
                   upd_pc, store_einval, pmVars, autopm_refs>>

\* appletb_remove of an interface while both are bound, from
\* appletb_set_tb_mode(APPLETB_CMD_MODE_OFF) to its end; rc is the result
\* of appletb_set_tb_disp, got the result of appletb_disable_autopm
appletb_remove_finish(rc, got) ==
    /\ tbrm_pc # "none"
    /\ dev_disp' = DevDisp(APPLETB_CMD_DISP_ON, rc)
    /\ tb_autopm_off' = TbAutopmOff(APPLETB_CMD_DISP_ON, cur_tb_disp,
                                    tb_autopm_off, got)
    /\ autopm_refs' =
          LET n == AutopmRefs(APPLETB_CMD_DISP_ON, cur_tb_disp,
                              tb_autopm_off, got, autopm_refs)
          IN  IF tb_autopm_off' THEN AutopmPut(n) ELSE n
    /\ active' = FALSE
    /\ mode_hdev' = IF tbrm_pc = "mode" THEN FALSE ELSE mode_hdev
    /\ disp_hdev' = IF tbrm_pc = "disp" THEN FALSE ELSE disp_hdev
    /\ tbrm_pc' = "none"
    /\ UNCHANGED <<last_tb_keys_pressed, last_fn_pressed, elapsed,
                   cur_tb_mode, pnd_tb_mode, cur_tb_disp, pnd_tb_disp,
                   restore_autopm, tb_work, dim_timeout, idle_timeout,
                   dim_to_is_calc, fn_mode, wk_pc, wk>>
    /\ UNCHANGED <<spiVars, hr, tb_input_dev, tb_lock, last_tb_keys_translated,
                   upd_pc, store_einval, pmVars>>

\* appletb_fn_to_special(usage->code) is not 0: slot 0 is KEY_ESC, which
\* appletb_fn_codes does not list, the other slots are KEY_F1 .. KEY_F12
HasSpecialCode(slot) == slot >= 1

\* appletb_hid_event, what it decides to emit: KEY_UNKNOWN press and
\* release while the touch bar is off, the special code of a function key
\* pressed in special mode or released after a translated press
HidEmit(slot, value, cm, cd, gm, tr) ==
    IF cm = APPLETB_CMD_MODE_OFF \/ cd = APPLETB_CMD_DISP_OFF
    THEN "emit_dummy"
    ELSE IF /\ HasSpecialCode(slot)
            /\ \/ (value > 0 /\ gm = APPLETB_CMD_MODE_SPCL)
               \/ (value = 0 /\ tr[slot])
    THEN "emit_trnsl"
    ELSE "none"

\* the key codes held down after appletb_hid_event has handled value for
\* the key in slot: the dummy press and release of KEY_UNKNOWN leave none
\* behind and the event is dropped (rc = 1); input_event(new_code, value)
\* for a translated key; the key code of the slot, emitted by the HID core,
\* for an event handled normally (rc = 0).  InputOff stays as it is.
InputDevAfter(dev, slot, value, emit) ==
    IF dev = InputOff \/ emit = "emit_dummy" \/ value = 2 THEN dev
    ELSE LET code == <<slot, IF emit = "emit_trnsl" THEN "trnsl" ELSE "plain">>
         IN  IF value = 0 THEN dev \ {code} ELSE dev \cup {code}

\* appletb_hid_event for the touch bar key in slot
appletb_hid_event(slot, value) ==
    /\ active
    /\ LET keys == IF value # 2
                   THEN [last_tb_keys_pressed EXCEPT ![slot] = (value # 0)]
                   ELSE last_tb_keys_pressed
           u == appletb_update_touchbar_no_lock(FALSE, keys, last_fn_pressed,
                    idle_timeout, dim_timeout, fn_mode, cur_tb_mode,
                    cur_tb_disp)
       IN  /\ last_tb_keys_pressed' = keys
           /\ elapsed' = 0
           /\ pnd_tb_mode' = u.pnd_tb_mode
           /\ pnd_tb_disp' = u.pnd_tb_disp
           /\ tb_work' = u.tb_work
           /\ LET emit == HidEmit(slot, value, cur_tb_mode, cur_tb_disp,
                                   appletb_get_cur_tb_mode(u.pnd_tb_mode,
                                                           cur_tb_mode),
                                   last_tb_keys_translated)
               IN  /\ last_tb_keys_translated' =
                         IF emit = "emit_dummy" THEN last_tb_keys_translated
                         ELSE [last_tb_keys_translated EXCEPT
                                  ![slot] = (emit = "emit_trnsl")]
                   /\ tb_input_dev' =
                         InputDevAfter(tb_input_dev, slot, value, emit)
    /\ UNCHANGED <<active, mode_hdev, disp_hdev, last_fn_pressed,
                   cur_tb_mode, cur_tb_disp, tb_autopm_off, restore_autopm,
                   dim_timeout, idle_timeout, dim_to_is_calc, fn_mode, wk_pc,
                   wk, dev_disp>>
    /\ UNCHANGED <<spiVars, hr, tb_lock, upd_pc, tbrm_pc, store_einval, pmVars, autopm_refs>>

\* appletb_hid_event for the touch bar key in slot, the section under
\* tb_lock: the key is recorded, the update is made and what is to be
\* emitted is decided
appletb_hid_event_decide(slot, value) ==
    /\ active
    /\ upd_pc = "none"
    /\ LET keys == IF value # 2
                   THEN [last_tb_keys_pressed EXCEPT ![slot] = (value # 0)]
                   ELSE last_tb_keys_pressed
           u == appletb_update_touchbar_no_lock(FALSE, keys, last_fn_pressed,
                    idle_timeout, dim_timeout, fn_mode, cur_tb_mode,
                    cur_tb_disp)
           emit == HidEmit(slot, value, cur_tb_mode, cur_tb_disp,
                           appletb_get_cur_tb_mode(u.pnd_tb_mode,
                                                   cur_tb_mode),
                           last_tb_keys_translated)
       IN  /\ last_tb_keys_pressed' = keys
           /\ elapsed' = 0
           /\ pnd_tb_mode' = u.pnd_tb_mode
           /\ pnd_tb_disp' = u.pnd_tb_disp
           /\ tb_work' = u.tb_work
           /\ last_tb_keys_translated' =
                 IF emit = "emit_dummy" THEN last_tb_keys_translated
                 ELSE [last_tb_keys_translated EXCEPT
                          ![slot] = (emit = "emit_trnsl")]
           /\ upd_pc' = emit
           \* the events that appletb_hid_event_emit hands over
           /\ tb_input_dev' = InputDevAfter(tb_input_dev, slot, value, emit)
    /\ tb_lock' = spin_unlock_irqrestore(tb_lock)
    /\ UNCHANGED <<active, mode_hdev, disp_hdev, last_fn_pressed,
                   cur_tb_mode, cur_tb_disp, tb_autopm_off, restore_autopm,
                   dim_timeout, idle_timeout, dim_to_is_calc, fn_mode, wk_pc,
                   wk, dev_disp>>
    /\ UNCHANGED <<spiVars, hr, tbrm_pc, store_einval, pmVars, autopm_refs>>

\* appletb_hid_event: the input_event calls after the section under tb_lock
appletb_hid_event_emit ==
    /\ upd_pc \in {"emit_dummy", "emit_trnsl"}
    /\ upd_pc' = "none"
    /\ UNCHANGED <<active, mode_hdev, disp_hdev, last_tb_keys_pressed,
                   last_fn_pressed, elapsed, cur_tb_mode, pnd_tb_mode,
                   cur_tb_disp, pnd_tb_disp, tb_autopm_off, restore_autopm,
                   tb_work, dim_timeout, idle_timeout, dim_to_is_calc,
                   fn_mode, wk_pc, wk, dev_disp>>
    /\ UNCHANGED <<spiVars, hr, tb_input_dev, tb_lock, last_tb_keys_translated, tbrm_pc,
                   store_einval, pmVars, autopm_refs>>

\* appletb_inp_event: an event of the keyboard or the touchpad; is_fn: the
\* event is EV_KEY with code KEY_FN
appletb_inp_event(is_fn, value) ==
    /\ active
    /\ LET fn == IF is_fn /\ value # 2 THEN value # 0 ELSE last_fn_pressed
           u == appletb_update_touchbar_no_lock(FALSE, last_tb_keys_pressed,
                    fn, idle_timeout, dim_timeout, fn_mode, cur_tb_mode,
                    cur_tb_disp)
       IN  /\ last_fn_pressed' = fn
           /\ elapsed' = 0
           /\ pnd_tb_mode' = u.pnd_tb_mode
           /\ pnd_tb_disp' = u.pnd_tb_disp
           /\ tb_work' = u.tb_work
    /\ UNCHANGED <<active, mode_hdev, disp_hdev, last_tb_keys_pressed,
                   cur_tb_mode, cur_tb_disp, tb_autopm_off, restore_autopm,
                   dim_timeout, idle_timeout, dim_to_is_calc, fn_mode, wk_pc,
                   wk, dev_disp>>
    /\ tb_lock' = spin_unlock_irqrestore(tb_lock)
    /\ UNCHANGED <<spiVars, hr, tb_input_dev, last_tb_keys_translated,
                   upd_pc, tbrm_pc, store_einval, pmVars, autopm_refs>>

\* appletb_update_touchbar_no_lock: need_update of an update that is not
\* forced and leaves u in the pending slots (a slot that is set changes,
\* as it is set only to a value other than the one it holds)
SetsPending(u) ==
    u.pnd_tb_mode # pnd_tb_mode \/ u.pnd_tb_disp # pnd_tb_disp

\* appletb_inp_event from spin_lock_irqsave to cancel_delayed_work in
\* appletb_update_touchbar_no_lock; tb_lock stays held if the work is to
\* be scheduled
appletb_inp_event_cancel(is_fn, value) ==
    /\ active
    /\ upd_pc = "none"
    /\ tb_lock = "none"
    /\ LET fn == IF is_fn /\ value # 2 THEN value # 0 ELSE last_fn_pressed
           u == appletb_update_touchbar_no_lock(FALSE, last_tb_keys_pressed,
                    fn, idle_timeout, dim_timeout, fn_mode, cur_tb_mode,
                    cur_tb_disp)
       IN  /\ last_fn_pressed' = fn
           /\ elapsed' = 0
           /\ pnd_tb_mode' = u.pnd_tb_mode
           /\ pnd_tb_disp' = u.pnd_tb_disp
           /\ tb_work' = IF SetsPending(u) THEN cancel_delayed_work(tb_work)
                         ELSE tb_work
           /\ upd_pc' = IF SetsPending(u) THEN "schedule" ELSE "none"
           /\ tb_lock' = IF SetsPending(u) THEN "inp"
                         ELSE spin_unlock_irqrestore(tb_lock)
    /\ UNCHANGED <<active, mode_hdev, disp_hdev, last_tb_keys_pressed,
                   cur_tb_mode, cur_tb_disp, tb_autopm_off, restore_autopm,
                   dim_timeout, idle_timeout, dim_to_is_calc, fn_mode, wk_pc,
                   wk, dev_disp>>
    /\ UNCHANGED <<spiVars, hr, tb_input_dev, last_tb_keys_translated,
                   tbrm_pc, store_einval, pmVars, autopm_refs>>

\* appletb_inp_event from appletb_schedule_tb_update(0) in
\* appletb_update_touchbar_no_lock to spin_unlock_irqrestore
appletb_inp_event_schedule ==
    /\ upd_pc = "schedule"
    /\ tb_work' = appletb_schedule_tb_update(tb_work, 0)
    /\ upd_pc' = "none"
    /\ tb_lock' = spin_unlock_irqrestore(tb_lock)
    /\ UNCHANGED <<active, mode_hdev, disp_hdev, last_tb_keys_pressed,
                   last_fn_pressed, elapsed, cur_tb_mode, pnd_tb_mode,
                   cur_tb_disp, pnd_tb_disp, tb_autopm_off, restore_autopm,
                   dim_timeout, idle_timeout, dim_to_is_calc, fn_mode, wk_pc,
                   wk, dev_disp>>
    /\ UNCHANGED <<spiVars, hr, tb_input_dev, last_tb_keys_translated,
                   tbrm_pc, store_einval, pmVars, autopm_refs>>

\* ---- sysfs attributes ---------------------------------------------------
INT_MAX == 2147483647
EINVAL == 22
ERANGE == 34

\* the value of every character that is a digit of some base; the capital
\* hexadecimal letters count as the small ones (_tolower)
DigitVal ==
    [c \in {"0", "1", "2", "3", "4", "5", "6", "7", "8", "9", "a", "b", "c",
            "d", "e", "f", "A", "B", "C", "D", "E", "F"} |->
        CASE c = "0" -> 0 [] c = "1" -> 1 [] c = "2" -> 2 [] c = "3" -> 3
          [] c = "4" -> 4 [] c = "5" -> 5 [] c = "6" -> 6 [] c = "7" -> 7
          [] c = "8" -> 8 [] c = "9" -> 9 [] c \in {"a", "A"} -> 10
          [] c \in {"b", "B"} -> 11 [] c \in {"c", "C"} -> 12
          [] c \in {"d", "D"} -> 13 [] c \in {"e", "E"} -> 14
          [] c \in {"f", "F"} -> 15]

\* c is a digit of the base
IsDigit(c, base) == c \in DOMAIN DigitVal /\ DigitVal[c] < base

\* the decimal digits in the order of their values
DigitChars == <<"0", "1", "2", "3", "4", "5", "6", "7", "8", "9">>

\* snprintf(buf, PAGE_SIZE, "%d\n", n) of the show functions: the decimal
\* digits of n, a sign for n < 0, and a newline
RECURSIVE DecNat(_)
DecNat(n) ==
    IF n < 10 THEN <<DigitChars[n + 1]>>
    ELSE Append(DecNat(n \div 10), DigitChars[(n % 10) + 1])

snprintf_d(n) ==
    (IF n < 0 THEN <<"-">> \o DecNat(-n) ELSE DecNat(n)) \o <<"\n">>

\* _parse_integer: the digits of buf from position i on, accumulated onto
\* acc, up to the first character that is no digit of the base; big: the
\* value is larger than INT_MAX (acc then stays at INT_MAX); next is the
\* position of the first character not consumed
RECURSIVE ParseDigits(_, _, _, _, _)
ParseDigits(buf, i, base, acc, big) ==
    IF i > Len(buf) \/ ~IsDigit(buf[i], base)
    THEN [val |-> acc, big |-> big, next |-> i]
    ELSE LET d == DigitVal[buf[i]]
         IN  IF big \/ acc > (INT_MAX - d) \div base
             THEN ParseDigits(buf, i + 1, base, INT_MAX, TRUE)
             ELSE ParseDigits(buf, i + 1, base, acc * base + d, FALSE)

\* _parse_integer_fixup_radix for base 0: 16 after "0x" and a hexadecimal
\* digit, 8 after "0", 10 otherwise; s is the text after the sign
Radix(s) ==
    IF Len(s) > 0 /\ s[1] = "0"
    THEN IF Len(s) > 2 /\ s[2] \in {"x", "X"} /\ IsDigit(s[3], 16)
         THEN 16 ELSE 8
    ELSE 10

\* the number of digits from which a value of the base is certainly
\* outside the 64 bits of a long
LongDigits(base) == IF base = 16 THEN 17 ELSE IF base = 8 THEN 23 ELSE 20

\* kstrtol(buf, 0, &new): an optional sign, an optional "0x" or "0" that
\* selects the base, digits, an optional newline at the end. rc is 0,
\* -EINVAL for malformed text and -ERANGE for a value outside long; val is
\* the value parsed; big tells that its magnitude is larger than INT_MAX
\* (val is then INT_MAX or -INT_MAX)
kstrtol(buf) ==
    LET signed == Len(buf) > 0 /\ buf[1] \in {"-", "+"}
        s == IF signed THEN Tail(buf) ELSE buf
        base == Radix(s)
        first == IF base = 16 THEN 3 ELSE 1
        p == ParseDigits(s, first, base, 0, FALSE)
        end == IF p.next <= Len(s) /\ s[p.next] = "\n"
               THEN p.next + 1 ELSE p.next
    IN  IF p.next = first \/ end <= Len(s)
        THEN [rc |-> -EINVAL, val |-> 0, big |-> FALSE]
        ELSE [rc |-> IF p.big /\ p.next - first >= LongDigits(base)
                     THEN -ERANGE ELSE 0,
              val |-> IF signed /\ buf[1] = "-" THEN -p.val ELSE p.val,
              big |-> p.big]

\* mutant of TimeoutInRange: no range check
TimeoutInRangeAlways(res) == res.rc = 0

\* idle_timeout_store, dim_timeout_store: the value parsed is accepted
TimeoutInRange(res) ==
    ~(res.rc # 0 \/ (res.big /\ res.val > 0) \/ res.val < -2)

\* fnmode_store: the value parsed is accepted
FnModeInRange(res) ==
    ~(res.rc # 0 \/ (res.big /\ res.val > 0)
        \/ res.val > APPLETB_FN_MODE_MAX \/ res.val < 0)

\* idle_timeout_store: buf is what was written to the attribute
idle_timeout_store(buf) ==
    /\ mode_hdev /\ disp_hdev
    /\ \E res \in {kstrtol(buf)} :
       LET new == res.val
           dim == IdleDerivedDim(new, dim_to_is_calc, dim_timeout)
           u == appletb_update_touchbar(TRUE, active, last_tb_keys_pressed,
                    last_fn_pressed, new, dim, fn_mode, cur_tb_mode,
                    cur_tb_disp)
       IN  IF ~TimeoutInRange(res)
           THEN /\ store_einval' = TRUE
                /\ UNCHANGED <<idle_timeout, dim_timeout, pnd_tb_mode,
                               pnd_tb_disp, tb_work>>
           ELSE /\ store_einval' = FALSE
                /\ idle_timeout' = new
                /\ dim_timeout' = dim
                /\ pnd_tb_mode' = u.pnd_tb_mode
                /\ pnd_tb_disp' = u.pnd_tb_disp
                /\ tb_work' = u.tb_work
    /\ UNCHANGED <<active, mode_hdev, disp_hdev, last_tb_keys_pressed,
                   last_fn_pressed, elapsed, cur_tb_mode, cur_tb_disp,
                   tb_autopm_off, restore_autopm, dim_to_is_calc, fn_mode,
                   wk_pc, wk, dev_disp>>
    /\ UNCHANGED <<spiVars, hr, tb_input_dev, tb_lock, last_tb_keys_translated,
                   upd_pc, tbrm_pc, pmVars, autopm_refs>>

\* dim_timeout_store: buf is what was written to the attribute
dim_timeout_store(buf) ==
    /\ mode_hdev /\ disp_hdev
    /\ \E res \in {kstrtol(buf)} :
       LET new == res.val
           dim == NewDimTimeout(new, idle_timeout, dim_timeout)
           u == appletb_update_touchbar(TRUE, active, last_tb_keys_pressed,
                    last_fn_pressed, idle_timeout, dim, fn_mode, cur_tb_mode,
                    cur_tb_disp)
       IN  IF ~TimeoutInRange(res)
           THEN /\ store_einval' = TRUE
                /\ UNCHANGED <<dim_to_is_calc, dim_timeout, pnd_tb_mode,
                               pnd_tb_disp, tb_work>>
           ELSE /\ store_einval' = FALSE
                /\ dim_to_is_calc' = DimToIsCalc(new)
                /\ dim_timeout' = dim
                /\ pnd_tb_mode' = u.pnd_tb_mode
                /\ pnd_tb_disp' = u.pnd_tb_disp
                /\ tb_work' = u.tb_work
    /\ UNCHANGED <<active, mode_hdev, disp_hdev, last_tb_keys_pressed,
                   last_fn_pressed, elapsed, cur_tb_mode, cur_tb_disp,
                   tb_autopm_off, restore_autopm, idle_timeout, fn_mode,
                   wk_pc, wk, dev_disp>>
    /\ UNCHANGED <<spiVars, hr, tb_input_dev, tb_lock, last_tb_keys_translated,
                   upd_pc, tbrm_pc, pmVars, autopm_refs>>

\* fnmode_store: buf is what was written to the attribute
fnmode_store(buf) ==
    /\ mode_hdev /\ disp_hdev
    /\ \E res \in {kstrtol(buf)} :
       LET new == res.val
           u == appletb_update_touchbar(FALSE, active, last_tb_keys_pressed,
                    last_fn_pressed, idle_timeout, dim_timeout, new,
                    cur_tb_mode, cur_tb_disp)
       IN  IF ~FnModeInRange(res)
           THEN /\ store_einval' = TRUE
                /\ UNCHANGED <<fn_mode, pnd_tb_mode, pnd_tb_disp, tb_work>>
           ELSE /\ store_einval' = FALSE
                /\ fn_mode' = new
                /\ pnd_tb_mode' = u.pnd_tb_mode
                /\ pnd_tb_disp' = u.pnd_tb_disp
                /\ tb_work' = u.tb_work
    /\ UNCHANGED <<active, mode_hdev, disp_hdev, last_tb_keys_pressed,
                   last_fn_pressed, elapsed, cur_tb_mode, cur_tb_disp,
                   tb_autopm_off, restore_autopm, dim_timeout, idle_timeout,
                   dim_to_is_calc, wk_pc, wk, dev_disp>>
    /\ UNCHANGED <<spiVars, hr, tb_input_dev, tb_lock, last_tb_keys_translated,
                   upd_pc, tbrm_pc, pmVars, autopm_refs>>

\* appletb_set_tb_worker, from its start to the reports it sends for the
\* pending mode and display (the work stops being pending when it starts);
\* r1 and r2 are the results of appletb_send_hid_report for the mode and
\* for the display, got is the result of appletb_disable_autopm
appletb_set_tb_worker_send(r1, r2, got) ==
    /\ wk_pc = "idle"
    /\ tb_work = 0
    /\ tb_work' = -1
    /\   LET pending_mode == pnd_tb_mode
              pending_disp == pnd_tb_disp
              rc1 == IF pending_mode # APPLETB_CMD_MODE_NONE THEN r1 ELSE 1
              rc2 == IF pending_disp # APPLETB_CMD_DISP_NONE THEN r2 ELSE 1
          IN  /\ wk' = [WkIdle EXCEPT !.pending_mode = pending_mode,
                                      !.pending_disp = pending_disp,
                                      !.rc1 = rc1, !.rc2 = rc2]
              /\ dev_disp' = IF pending_disp # APPLETB_CMD_DISP_NONE
                             THEN DevDisp(pending_disp, rc2)
                             ELSE dev_disp
              /\ tb_autopm_off' =
                    IF pending_disp # APPLETB_CMD_DISP_NONE
                    THEN TbAutopmOff(pending_disp, cur_tb_disp,
                                     tb_autopm_off, got)
                    ELSE tb_autopm_off
    /\ wk_pc' = "commit"
    /\ UNCHANGED <<active, mode_hdev, disp_hdev, last_tb_keys_pressed,
                   last_fn_pressed, elapsed, cur_tb_mode, pnd_tb_mode,
                   cur_tb_disp, pnd_tb_disp, restore_autopm, dim_timeout,
                   idle_timeout, dim_to_is_calc, fn_mode>>
    /\ autopm_refs' =
          LET n == IF pnd_tb_disp # APPLETB_CMD_DISP_NONE
                   THEN AutopmRefs(pnd_tb_disp, cur_tb_disp, tb_autopm_off,
                                   got, autopm_refs)
                   ELSE autopm_refs
          IN  IF restore_autopm /\ tb_autopm_off' THEN AutopmGet(n, got)
              ELSE n
    /\ sp' = FlushRunStarts(sp)
    /\ UNCHANGED <<spiVars, hr, tb_input_dev, tb_lock, last_tb_keys_translated,
                   upd_pc, tbrm_pc, store_einval, mode_suspended, disp_suspended>>

\* appletb_set_tb_worker from its start to the end of the first critical
\* section: the pending values are read, the reports are still to be sent
appletb_set_tb_worker_start ==
    /\ wk_pc = "idle"
    /\ tb_work = 0
    /\ tb_work' = -1
    /\ wk' = [WkIdle EXCEPT !.pending_mode = pnd_tb_mode,
                            !.pending_disp = pnd_tb_disp]
    /\ wk_pc' = "sending"
    /\ sp' = FlushRunStarts(sp)
    /\ UNCHANGED <<active, mode_hdev, disp_hdev, last_tb_keys_pressed,
                   last_fn_pressed, elapsed, cur_tb_mode, pnd_tb_mode,
                   cur_tb_disp, pnd_tb_disp, tb_autopm_off, restore_autopm,
                   dim_timeout, idle_timeout, dim_to_is_calc, fn_mode,
                   dev_disp>>
    /\ tb_lock' = spin_unlock_irqrestore(tb_lock)
    /\ UNCHANGED <<spiVars, hr, tb_input_dev, last_tb_keys_translated,
                   upd_pc, tbrm_pc, store_einval, mode_suspended,
                   disp_suspended, autopm_refs>>

\* appletb_set_tb_worker: the reports for the pending mode and display,
\* the 25 ms between them and the autopm calls, all made without tb_lock;
\* r1, r2 and got as in appletb_set_tb_worker_send
appletb_set_tb_worker_reports(r1, r2, got) ==
    /\ wk_pc = "sending"
    /\ wk' = [wk EXCEPT
                 !.rc1 = IF wk.pending_mode # APPLETB_CMD_MODE_NONE
                         THEN r1 ELSE 1,
                 !.rc2 = IF wk.pending_disp # APPLETB_CMD_DISP_NONE
                         THEN r2 ELSE 1]
    /\ dev_disp' = IF wk.pending_disp # APPLETB_CMD_DISP_NONE
                   THEN DevDisp(wk.pending_disp, r2)
                   ELSE dev_disp
    /\ tb_autopm_off' =
          IF wk.pending_disp # APPLETB_CMD_DISP_NONE
          THEN TbAutopmOff(wk.pending_disp, cur_tb_disp, tb_autopm_off, got)
          ELSE tb_autopm_off
    /\ autopm_refs' =
          LET n == IF wk.pending_disp # APPLETB_CMD_DISP_NONE
                   THEN AutopmRefs(wk.pending_disp, cur_tb_disp,
                                   tb_autopm_off, got, autopm_refs)
                   ELSE autopm_refs
          IN  IF restore_autopm /\ tb_autopm_off' THEN AutopmGet(n, got)
              ELSE n
    /\ wk_pc' = "commit"
    /\ UNCHANGED <<active, mode_hdev, disp_hdev, last_tb_keys_pressed,
                   last_fn_pressed, elapsed, cur_tb_mode, pnd_tb_mode,
                   cur_tb_disp, pnd_tb_disp, restore_autopm, tb_work,
                   dim_timeout, idle_timeout, dim_to_is_calc, fn_mode>>
    /\ UNCHANGED <<spiVars, hr, tb_input_dev, tb_lock, last_tb_keys_translated,
                   upd_pc, tbrm_pc, store_einval, pmVars>>

\* mutant of PndAfterSend: the slot is cleared whatever it holds
PndAfterSendCleared(ok, pnd, pending, none) == IF ok THEN none ELSE pnd

\* appletb_set_tb_worker: the pending slot after the value pending has been
\* sent with result ok; pnd is what the slot holds now
PndAfterSend(ok, pnd, pending, none) ==
    IF ok /\ pnd = pending THEN none ELSE pnd

\* appletb_set_tb_worker: a call of appletb_schedule_tb_update(secs) that
\* ends the run. The call is made after tb_lock is released; with split it
\* is left to a step of its own, appletb_set_tb_worker_resched
WorkerReschedule(split, secs) ==
    IF split
    THEN /\ tb_work' = tb_work
         /\ wk_pc' = "resched"
         /\ wk' = [WkIdle EXCEPT !.delay = secs]
    ELSE /\ tb_work' = appletb_schedule_tb_update(tb_work, secs)
         /\ wk_pc' = "idle"
         /\ wk' = WkIdle

\* appletb_set_tb_worker, from the second critical section to the report
\* for a timeout transition (if one is due) or to its end; rc and got are
\* the results of appletb_send_hid_report and appletb_disable_autopm there
WorkerCommit(rc, got, split) ==
    /\ wk_pc = "commit"
    /\ LET mode_ok == wk.rc1 = 0
           disp_ok == wk.rc2 = 0
           need_reschedule ==
               \/ (mode_ok /\ pnd_tb_mode # wk.pending_mode)
               \/ (disp_ok /\ pnd_tb_disp # wk.pending_disp)
           current_disp == IF disp_ok THEN wk.pending_disp ELSE cur_tb_disp
           min_timeout == MinTimeout(idle_timeout, dim_timeout)
           idle_time == elapsed
           time_left == TimeLeft(min_timeout, idle_time)
           time_to_off == TimeToOff(min_timeout, idle_timeout, idle_time)
           any_tb_key_pressed ==
               appletb_any_tb_key_pressed(last_tb_keys_pressed)
           next_disp == IF time_to_off = 0 THEN APPLETB_CMD_DISP_OFF
                        ELSE APPLETB_CMD_DISP_DIM
       IN  /\ cur_tb_mode' = IF mode_ok THEN wk.pending_mode
                             ELSE cur_tb_mode
           /\ pnd_tb_mode' = PndAfterSend(mode_ok, pnd_tb_mode,
                                           wk.pending_mode,
                                           APPLETB_CMD_MODE_NONE)
           /\ cur_tb_disp' = current_disp
           /\ pnd_tb_disp' = PndAfterSend(disp_ok, pnd_tb_disp,
                                           wk.pending_disp,
                                           APPLETB_CMD_DISP_NONE)
           /\ restore_autopm' = FALSE
           /\ IF need_reschedule
              THEN /\ WorkerReschedule(split, 0)
                   /\ UNCHANGED <<dev_disp, tb_autopm_off>>
              ELSE IF min_timeout <= 0
              THEN /\ wk_pc' = "idle" /\ wk' = WkIdle
                   /\ UNCHANGED <<tb_work, dev_disp, tb_autopm_off>>
              ELSE IF time_left > 0
              THEN /\ WorkerReschedule(split, time_left)
                   /\ UNCHANGED <<dev_disp, tb_autopm_off>>
              ELSE IF any_tb_key_pressed
              THEN /\ WorkerReschedule(split, min_timeout)
                   /\ UNCHANGED <<dev_disp, tb_autopm_off>>
              ELSE IF next_disp # current_disp
              THEN \* dim or idle timeout reached: appletb_set_tb_disp,
                   \* called without tb_lock; with split it is left to a
                   \* step of its own, appletb_set_tb_worker_timeout_send
                   /\ dev_disp' = IF split THEN dev_disp
                                  ELSE DevDisp(next_disp, rc)
                   /\ tb_autopm_off' =
                         IF split THEN tb_autopm_off
                         ELSE TbAutopmOff(next_disp, current_disp,
                                          tb_autopm_off, got)
                   /\ wk' = [WkIdle EXCEPT !.next_disp = next_disp,
                                           !.rc = IF split THEN 1 ELSE rc,
                                           !.time_to_off = time_to_off]
                   /\ wk_pc' = IF split THEN "dimsend" ELSE "timeout"
                   /\ UNCHANGED tb_work
              ELSE /\ IF time_to_off > 0
                      THEN WorkerReschedule(split, time_to_off)
                      ELSE /\ wk_pc' = "idle" /\ wk' = WkIdle
                           /\ UNCHANGED tb_work
                   /\ UNCHANGED <<dev_disp, tb_autopm_off>>
    /\ UNCHANGED <<active, mode_hdev, disp_hdev, last_tb_keys_pressed,
                   last_fn_pressed, elapsed, dim_timeout, idle_timeout,
                   dim_to_is_calc, fn_mode>>
    /\ autopm_refs' =
          IF wk_pc' = "timeout"
          THEN AutopmRefs(wk'.next_disp, cur_tb_disp', tb_autopm_off, got,
                          autopm_refs)
          ELSE autopm_refs
    /\ sp' = IF wk_pc' = "idle" THEN FlushRunEnds(sp) ELSE sp
    /\ tb_lock' = spin_unlock_irqrestore(tb_lock)
    /\ UNCHANGED <<spiVars, hr, tb_input_dev, last_tb_keys_translated,
                   upd_pc, tbrm_pc, store_einval, mode_suspended, disp_suspended>>

\* appletb_set_tb_worker from the second critical section on, the call of
\* appletb_schedule_tb_update that ends the run included
appletb_set_tb_worker_commit(rc, got) == WorkerCommit(rc, got, FALSE)

\* appletb_set_tb_worker from the second critical section on, up to the
\* call of appletb_schedule_tb_update that ends the run
appletb_set_tb_worker_decide(rc, got) == WorkerCommit(rc, got, TRUE)

\* appletb_set_tb_worker: appletb_set_tb_disp(next_disp) for a timeout
\* transition, called without tb_lock; rc and got are the results of
\* appletb_send_hid_report and appletb_disable_autopm
appletb_set_tb_worker_timeout_send(rc, got) ==
    /\ wk_pc = "dimsend"
    /\ dev_disp' = DevDisp(wk.next_disp, rc)
    /\ tb_autopm_off' = TbAutopmOff(wk.next_disp, cur_tb_disp, tb_autopm_off,
                                    got)
    /\ autopm_refs' = AutopmRefs(wk.next_disp, cur_tb_disp, tb_autopm_off,
                                 got, autopm_refs)
    /\ wk' = [wk EXCEPT !.rc = rc]
    /\ wk_pc' = "timeout"
    /\ UNCHANGED <<active, mode_hdev, disp_hdev, last_tb_keys_pressed,
                   last_fn_pressed, elapsed, cur_tb_mode, pnd_tb_mode,
                   cur_tb_disp, pnd_tb_disp, restore_autopm, tb_work,
                   dim_timeout, idle_timeout, dim_to_is_calc, fn_mode>>
    /\ UNCHANGED <<spiVars, hr, tb_input_dev, tb_lock, last_tb_keys_translated,
                   upd_pc, tbrm_pc, store_einval, pmVars>>

\* appletb_set_tb_worker: the call of appletb_schedule_tb_update that ends
\* the run, made without tb_lock
appletb_set_tb_worker_resched ==
    /\ wk_pc = "resched"
    /\ tb_work' = appletb_schedule_tb_update(tb_work, wk.delay)
    /\ wk_pc' = "idle"
    /\ wk' = WkIdle
    /\ sp' = FlushRunEnds(sp)
    /\ UNCHANGED <<active, mode_hdev, disp_hdev, last_tb_keys_pressed,
                   last_fn_pressed, elapsed, cur_tb_mode, pnd_tb_mode,
                   cur_tb_disp, pnd_tb_disp, tb_autopm_off, restore_autopm,
                   dim_timeout, idle_timeout, dim_to_is_calc, fn_mode,
                   dev_disp>>
    /\ UNCHANGED <<spiVars, hr, tb_input_dev, tb_lock, last_tb_keys_translated,
                   upd_pc, tbrm_pc, store_einval, mode_suspended,
                   disp_suspended, autopm_refs>>

\* appletb_set_tb_worker, after the report for a timeout transition: store
\* the new cur_tb_disp under tb_lock and re-schedule for the idle timeout
appletb_set_tb_worker_timeout ==
    /\ wk_pc = "timeout"
    /\ cur_tb_disp' = IF wk.rc = 0 THEN wk.next_disp ELSE cur_tb_disp
    /\ tb_work' = IF wk.time_to_off > 0
                  THEN appletb_schedule_tb_update(tb_work, wk.time_to_off)
                  ELSE tb_work
    /\ wk_pc' = "idle"
    /\ wk' = WkIdle
    /\ UNCHANGED <<active, mode_hdev, disp_hdev, last_tb_keys_pressed,
                   last_fn_pressed, elapsed, cur_tb_mode, pnd_tb_mode,
                   pnd_tb_disp, tb_autopm_off, restore_autopm, dim_timeout,
                   idle_timeout, dim_to_is_calc, fn_mode, dev_disp>>
    /\ sp' = FlushRunEnds(sp)
    /\ tb_lock' = spin_unlock_irqrestore(tb_lock)
    /\ UNCHANGED <<spiVars, hr, tb_input_dev, last_tb_keys_translated,
                   upd_pc, tbrm_pc, store_einval, mode_suspended, disp_suspended,
                   autopm_refs>>

\* ---- suspend and resume -------------------------------------------------
\* message.event of the suspends that appletb_suspend acts on:
\* PM_EVENT_SUSPEND, PM_EVENT_FREEZE
PmEvents == {"suspend", "freeze"}

\* appletb_suspend of one interface, the section under tb_lock
appletb_suspend_lock(iface, event) ==
    /\ sp.pc = "none"
    /\ IF iface = "mode" THEN mode_hdev /\ ~mode_suspended
                         ELSE disp_hdev /\ ~disp_suspended
    /\ LET first == ~mode_suspended /\ ~disp_suspended
           ms == iface = "mode" \/ mode_suspended
           ds == iface = "disp" \/ disp_suspended
       IN  /\ active' = IF first THEN FALSE ELSE active
           /\ tb_work' = IF first THEN cancel_delayed_work(tb_work)
                         ELSE tb_work
           /\ mode_suspended' = ms
           /\ disp_suspended' = ds
           /\ sp' = [pc |-> "locked",
                     all_suspended |-> /\ (~mode_hdev \/ ms)
                                       /\ (~disp_hdev \/ ds),
                     event |-> event, wait |-> "none"]
    /\ UNCHANGED <<mode_hdev, disp_hdev, last_tb_keys_pressed,
                   last_fn_pressed, elapsed, cur_tb_mode, pnd_tb_mode,
                   cur_tb_disp, pnd_tb_disp, tb_autopm_off, restore_autopm,
                   dim_timeout, idle_timeout, dim_to_is_calc, fn_mode, wk_pc,
                   wk, dev_disp>>
    /\ UNCHANGED <<spiVars, hr, tb_input_dev, tb_lock, last_tb_keys_translated,
                   upd_pc, tbrm_pc, store_einval, autopm_refs>>

\* appletb_suspend: flush_delayed_work is called; a pending tb_work is
\* queued at once, and the call waits for the run that is queued or running
appletb_suspend_flush ==
    /\ sp.pc = "locked"
    /\ tb_work' = IF tb_work >= 0 THEN 0 ELSE tb_work
    /\ sp' = [sp EXCEPT !.pc = "flush",
                        !.wait = IF tb_work >= 0 THEN "queued"
                                 ELSE IF wk_pc # "idle" THEN "running"
                                 ELSE "none"]
    /\ UNCHANGED <<active, mode_hdev, disp_hdev, last_tb_keys_pressed,
                   last_fn_pressed, elapsed, cur_tb_mode, pnd_tb_mode,
                   cur_tb_disp, pnd_tb_disp, tb_autopm_off, restore_autopm,
                   dim_timeout, idle_timeout, dim_to_is_calc, fn_mode, wk_pc,
                   wk, dev_disp>>
    /\ UNCHANGED <<spiVars, hr, tb_input_dev, tb_lock, last_tb_keys_translated,
                   upd_pc, tbrm_pc, store_einval, mode_suspended, disp_suspended,
                   autopm_refs>>

\* appletb_suspend: flush_delayed_work has returned; return if an interface
\* is not suspended yet, else send mode Off and display Off for
\* PM_EVENT_SUSPEND; rc is the result of appletb_send_hid_report for the
\* display
appletb_suspend_send(rc) ==
    /\ sp.pc = "flush"
    /\ sp.wait = "none"
    /\ IF ~sp.all_suspended
       THEN /\ sp' = SpNone
            /\ UNCHANGED <<dev_disp, tb_autopm_off, autopm_refs>>
       ELSE /\ sp' = [sp EXCEPT !.pc = "sent"]
            /\ IF sp.event = "suspend" /\ disp_hdev
               THEN /\ dev_disp' = DevDisp(APPLETB_CMD_DISP_OFF, rc)
                    /\ tb_autopm_off' =
                          TbAutopmOff(APPLETB_CMD_DISP_OFF, cur_tb_disp,
                                      tb_autopm_off, TRUE)
                    /\ autopm_refs' =
                          AutopmRefs(APPLETB_CMD_DISP_OFF, cur_tb_disp,
                                     tb_autopm_off, TRUE, autopm_refs)
               ELSE UNCHANGED <<dev_disp, tb_autopm_off, autopm_refs>>
    /\ UNCHANGED <<active, mode_hdev, disp_hdev, last_tb_keys_pressed,
                   last_fn_pressed, elapsed, cur_tb_mode, pnd_tb_mode,
                   cur_tb_disp, pnd_tb_disp, restore_autopm, tb_work,
                   dim_timeout, idle_timeout, dim_to_is_calc, fn_mode, wk_pc,
                   wk>>
    /\ UNCHANGED <<spiVars, hr, tb_input_dev, tb_lock, last_tb_keys_translated,
                   upd_pc, tbrm_pc, store_einval, mode_suspended, disp_suspended>>

\* appletb_suspend: the last section under tb_lock
appletb_suspend_store ==
    /\ sp.pc = "sent"
    /\ cur_tb_mode' = APPLETB_CMD_MODE_OFF
    /\ cur_tb_disp' = APPLETB_CMD_DISP_OFF
    /\ sp' = SpNone
    /\ UNCHANGED <<active, mode_hdev, disp_hdev, last_tb_keys_pressed,
                   last_fn_pressed, elapsed, pnd_tb_mode, pnd_tb_disp,
                   tb_autopm_off, restore_autopm, tb_work, dim_timeout,
                   idle_timeout, dim_to_is_calc, fn_mode, wk_pc, wk,
                   dev_disp>>
    /\ UNCHANGED <<spiVars, hr, tb_input_dev, tb_lock, last_tb_keys_translated,
                   upd_pc, tbrm_pc, store_einval, mode_suspended, disp_suspended,
                   autopm_refs>>

\* mutant of BothResumed: the suspended flags are not looked at
BothResumedBound(ms, ds) == mode_hdev /\ disp_hdev

\* appletb_reset_resume: both interfaces are bound and not suspended; ms and
\* ds are the suspended flags as the handler has just stored them
BothResumed(ms, ds) == (mode_hdev /\ ~ms) /\ (disp_hdev /\ ~ds)

\* appletb_reset_resume of one interface
appletb_reset_resume(iface) ==
    /\ sp.pc = "none"
    /\ IF iface = "mode" THEN mode_hdev /\ mode_suspended
                         ELSE disp_hdev /\ disp_suspended
    /\ LET ms == iface # "mode" /\ mode_suspended
           ds == iface # "disp" /\ disp_suspended
           u == appletb_update_touchbar_no_lock(TRUE, last_tb_keys_pressed,
                    last_fn_pressed, idle_timeout, dim_timeout, fn_mode,
                    cur_tb_mode, cur_tb_disp)
       IN  /\ mode_suspended' = ms
           /\ disp_suspended' = ds
           /\ IF BothResumed(ms, ds)
              THEN /\ active' = TRUE
                   /\ restore_autopm' = TRUE
                   /\ elapsed' = 0
                   /\ pnd_tb_mode' = u.pnd_tb_mode
                   /\ pnd_tb_disp' = u.pnd_tb_disp
                   /\ tb_work' = u.tb_work
              ELSE UNCHANGED <<active, restore_autopm, elapsed, pnd_tb_mode,
                               pnd_tb_disp, tb_work>>
    /\ UNCHANGED <<mode_hdev, disp_hdev, last_tb_keys_pressed,
                   last_fn_pressed, cur_tb_mode, cur_tb_disp, tb_autopm_off,
                   dim_timeout, idle_timeout, dim_to_is_calc, fn_mode, wk_pc,
                   wk, dev_disp>>
    /\ UNCHANGED <<spiVars, hr, tb_input_dev, tb_lock, last_tb_keys_translated,
                   upd_pc, tbrm_pc, store_einval, sp, autopm_refs>>

\* the idle time from which on the worker's comparisons have the same
\* outcome: the larger of the configured timeouts
TimeCap == Max(1, Max(idle_timeout, dim_timeout))

\* one second passes: ktime_get() advances and the timer of tb_work runs
\* down.  Idle times of TimeCap and more are not told apart.
Tick ==
    /\ elapsed' = Min(elapsed + 1, TimeCap)
    /\ tb_work' = IF tb_work > 0 THEN tb_work - 1 ELSE tb_work
    /\ UNCHANGED <<active, mode_hdev, disp_hdev, last_tb_keys_pressed,
                   last_fn_pressed, cur_tb_mode, pnd_tb_mode, cur_tb_disp,
                   pnd_tb_disp, tb_autopm_off, restore_autopm, dim_timeout,
                   idle_timeout, dim_to_is_calc, fn_mode, wk_pc, wk,
                   dev_disp>>
    /\ UNCHANGED <<spiVars, hr, tb_input_dev, tb_lock, last_tb_keys_translated,
                   upd_pc, tbrm_pc, store_einval, pmVars, autopm_refs>>

\* Configuration and input handling: the module is loaded with its default
\* parameters, every report is delivered, and no timeout runs out (less
\* than a second passes).
NextTb ==
    \/ \E iface \in {"mode", "disp"}, fail \in BOOLEAN :
          appletb_probe(iface, appletb_tb_def_idle_timeout,
                        appletb_tb_def_dim_timeout, appletb_tb_def_fn_mode,
                        fail)
    \/ \E iface \in {"mode", "disp"} : appletb_remove(iface, 0, TRUE)
    \/ \E slot \in TbSlots, value \in KeyValues :
          appletb_hid_event(slot, value)
    \/ \E ev \in InpEvents : appletb_inp_event(ev[1], ev[2])
    \/ \E new \in TimeoutValues : idle_timeout_store(snprintf_d(new))
    \/ \E new \in TimeoutValues : dim_timeout_store(snprintf_d(new))
    \/ \E new \in FnModes : fnmode_store(snprintf_d(new))
    \/ appletb_set_tb_worker_send(0, 0, TRUE)
    \/ appletb_set_tb_worker_commit(0, TRUE)

\* Timeouts: time passes and reports can fail; the configuration is the one
\* of the module parameters idle_timeout and dim_timeout.
NextTbTimed ==
    \/ \E iface \in {"mode", "disp"}, def_idle \in TimeoutValues,
          def_dim \in TimeoutValues, fail \in BOOLEAN :
          appletb_probe(iface, def_idle, def_dim, appletb_tb_def_fn_mode,
                        fail)
    \/ \E iface \in {"mode", "disp"}, rc \in SendResults, got \in BOOLEAN :
          appletb_remove(iface, rc, got)
    \/ \E slot \in TbSlots, value \in KeyValues :
          appletb_hid_event(slot, value)
    \/ \E ev \in InpEvents : appletb_inp_event(ev[1], ev[2])
    \/ \E r1 \in SendResults, r2 \in SendResults, got \in BOOLEAN :
          appletb_set_tb_worker_send(r1, r2, got)
    \/ \E rc \in SendResults, got \in BOOLEAN :
          appletb_set_tb_worker_commit(rc, got)
    \/ appletb_set_tb_worker_timeout
    \/ Tick

Init == InitSpi /\ InitTb /\ dev_seq = SeqOff

TbSpec == Init /\ [][NextTb]_vars

TbTimedSpec == Init /\ [][NextTbTimed]_vars

\* Scheduling the code relies on: the workqueue runs work that is due and a
\* started worker runs on; time passes.
TbFairness ==
    /\ WF_vars(\E r1 \in SendResults, r2 \in SendResults, got \in BOOLEAN :
                  appletb_set_tb_worker_send(r1, r2, got))
    /\ WF_vars(\E rc \in SendResults, got \in BOOLEAN :
                  appletb_set_tb_worker_commit(rc, got))
    /\ WF_vars(appletb_set_tb_worker_timeout)
    /\ WF_vars(Tick)

TbFairSpec == TbTimedSpec /\ TbFairness

\* One activation with a working device: the two interfaces are bound and
\* stay bound, time passes, every report is delivered and every autopm
\* request is granted.
NextTbSession ==
    \/ \E iface \in {"mode", "disp"}, def_idle \in TimeoutValues,
          def_dim \in TimeoutValues :
          appletb_probe(iface, def_idle, def_dim, appletb_tb_def_fn_mode,
                        FALSE)
    \/ \E slot \in TbSlots, value \in KeyValues :
          appletb_hid_event(slot, value)
    \/ \E ev \in InpEvents : appletb_inp_event(ev[1], ev[2])
    \/ appletb_set_tb_worker_send(0, 0, TRUE)
    \/ appletb_set_tb_worker_commit(0, TRUE)
    \/ appletb_set_tb_worker_timeout
    \/ Tick

TbSessionSpec == Init /\ [][NextTbSession]_vars

TbSessionFairness ==
    /\ WF_vars(appletb_set_tb_worker_send(0, 0, TRUE))
    /\ WF_vars(appletb_set_tb_worker_commit(0, TRUE))
    /\ WF_vars(appletb_set_tb_worker_timeout)
    /\ WF_vars(Tick)

TbSessionFairSpec == TbSessionSpec /\ TbSessionFairness

\* one second passes while no work is due and the worker is not running:
\* the workqueue runs due work within the second
TickOnTime ==
    /\ tb_work # 0
    /\ wk_pc = "idle"
    /\ Tick

\* One activation with a working device and a worker that runs on time.
NextTbOnTime ==
    \/ \E iface \in {"mode", "disp"}, def_idle \in IdleValues,
          def_dim \in IdleValues :
          appletb_probe(iface, def_idle, def_dim, appletb_tb_def_fn_mode,
                        FALSE)
    \/ \E slot \in TbSlots, value \in KeyValues :
          appletb_hid_event(slot, value)
    \/ \E ev \in InpEvents : appletb_inp_event(ev[1], ev[2])
    \/ appletb_set_tb_worker_send(0, 0, TRUE)
    \/ appletb_set_tb_worker_commit(0, TRUE)
    \/ appletb_set_tb_worker_timeout
    \/ TickOnTime

TbOnTimeSpec == Init /\ [][NextTbOnTime]_vars

TbOnTimeFairness ==
    /\ WF_vars(appletb_set_tb_worker_send(0, 0, TRUE))
    /\ WF_vars(appletb_set_tb_worker_commit(0, TRUE))
    /\ WF_vars(appletb_set_tb_worker_timeout)
    /\ WF_vars(TickOnTime)

TbOnTimeFairSpec == TbOnTimeSpec /\ TbOnTimeFairness

\* ---- the worker at a timeout edge ---------------------------------------
\* idle timeouts, dim timeouts and times since the last event (ms) at which
\* the worker is looked at
EdgeIdleValues == {-1, 5, 60, 300}
EdgeDimValues == {-1, 0, 3, 40}
EdgeIdleMs == {0, 499, 500, 2499, 2500, 4499, 5000, 39499, 39500, 59499,
               60000, 249499, 249500, 250000, 250499, 250500, 269499,
               269500, 299499, 299500, 300000}

\* the touch bar is active and shows the special layout, the display is On
\* or Dim, nothing is pending and the worker is due
InitEdge ==
    /\ active = TRUE
    /\ mode_hdev = TRUE
    /\ disp_hdev = TRUE
    /\ last_tb_keys_pressed \in [TbSlots -> BOOLEAN]
    /\ last_fn_pressed = FALSE
    /\ \E ms \in EdgeIdleMs : elapsed = IdleTime(ms)
    /\ cur_tb_mode = APPLETB_CMD_MODE_SPCL
    /\ pnd_tb_mode = APPLETB_CMD_MODE_NONE
    /\ cur_tb_disp \in {APPLETB_CMD_DISP_ON, APPLETB_CMD_DISP_DIM}
    /\ pnd_tb_disp = APPLETB_CMD_DISP_NONE
    /\ tb_autopm_off = TRUE
    /\ restore_autopm = FALSE
    /\ tb_work = 0
    /\ idle_timeout \in EdgeIdleValues
    /\ dim_to_is_calc \in BOOLEAN
    /\ dim_timeout \in IF dim_to_is_calc
                       THEN {IdleDerivedDim(idle_timeout, TRUE, 0)}
                       ELSE EdgeDimValues
    /\ fn_mode = appletb_tb_def_fn_mode
    /\ wk_pc = "idle"
    /\ wk = WkIdle
    /\ dev_disp = cur_tb_disp
    /\ store_einval = FALSE
    /\ mode_suspended = FALSE
    /\ disp_suspended = FALSE
    /\ sp = SpNone
    /\ autopm_refs = 1
    /\ upd_pc = "none"
    /\ tbrm_pc = "none"
    /\ tb_lock = "none"
    /\ last_tb_keys_translated = [i \in TbSlots |-> FALSE]
    /\ tb_input_dev = InputOff
    /\ hr = HrIdle

\* one run of the worker, every report delivered
NextTbEdge ==
    \/ appletb_set_tb_worker_send(0, 0, TRUE)
    \/ appletb_set_tb_worker_commit(0, TRUE)
    \/ appletb_set_tb_worker_timeout

EdgeInit == InitSpi /\ InitEdge /\ dev_seq = SeqOff

TbEdgeSpec == EdgeInit /\ [][NextTbEdge]_vars

\* one run of the worker, every report delivered, while touch bar keys are
\* pressed and released; the worker's steps without tb_lock are steps of
\* their own
NextTbEdgeRace ==
    \/ appletb_set_tb_worker_send(0, 0, TRUE)
    \/ appletb_set_tb_worker_decide(0, TRUE)
    \/ appletb_set_tb_worker_timeout_send(0, TRUE)
    \/ appletb_set_tb_worker_timeout
    \/ appletb_set_tb_worker_resched
    \/ \E slot \in TbSlots, value \in KeyValues :
          appletb_hid_event(slot, value)

TbEdgeRaceSpec == EdgeInit /\ [][NextTbEdgeRace]_vars

\* ---- the sysfs attributes with the values of the documentation ----------
\* values of the module parameters and of accepted writes
ConfigValues == {-2, -1, 0, 1, 2, 60, 300, INT_MAX}

\* what is written to an attribute: every accepted value as "%d\n", and
\* text that is malformed or out of the domain of one attribute or of all
ConfigBufs ==
    {snprintf_d(n) : n \in ConfigValues}
        \cup {<<"0", "3">>, <<"4", "\n">>, <<"+", "1">>,
              <<"0", "x", "3", "C", "\n">>, <<"0", "8">>, <<"0", "x">>,
              <<>>, <<"\n">>, <<"x">>, <<"-">>, <<"1", "2", "a">>,
              <<"-", "3", "\n">>,
              <<"2", "1", "4", "7", "4", "8", "3", "6", "4", "8", "\n">>,
              <<"-", "2", "1", "4", "7", "4", "8", "3", "6", "4", "9">>,
              <<"9", "9", "9", "9", "9", "9", "9", "9", "9", "9",
                "9", "9", "9", "9", "9", "9", "9", "9", "9", "9">>}

NextTbConfig ==
    \/ \E iface \in {"mode", "disp"}, def_idle \in ConfigValues,
          def_dim \in ConfigValues :
          appletb_probe(iface, def_idle, def_dim, appletb_tb_def_fn_mode,
                        FALSE)
    \/ \E buf \in ConfigBufs : idle_timeout_store(buf)
    \/ \E buf \in ConfigBufs : dim_timeout_store(buf)
    \/ \E buf \in ConfigBufs : fnmode_store(buf)
    \/ \E slot \in TbSlots, value \in KeyValues :
          appletb_hid_event(slot, value)
    \/ \E ev \in InpEvents : appletb_inp_event(ev[1], ev[2])

TbConfigSpec == Init /\ [][NextTbConfig]_vars

\* ---- suspend and resume of a bound touch bar ----------------------------
\* The module is loaded with its default parameters, both interfaces get
\* bound before the first suspend and stay bound, every report is
\* delivered, and no timeout runs out.
NoneSuspended == ~mode_suspended /\ ~disp_suspended

NextTbPm ==
    \/ \E iface \in {"mode", "disp"} :
          /\ NoneSuspended
          /\ appletb_probe(iface, appletb_tb_def_idle_timeout,
                           appletb_tb_def_dim_timeout, appletb_tb_def_fn_mode,
                           FALSE)
    \/ \E slot \in TbSlots, value \in KeyValues :
          appletb_hid_event(slot, value)
    \/ \E ev \in InpEvents : appletb_inp_event(ev[1], ev[2])
    \/ appletb_set_tb_worker_send(0, 0, TRUE)
    \/ appletb_set_tb_worker_commit(0, TRUE)
    \/ \E iface \in {"mode", "disp"}, event \in PmEvents :
          appletb_suspend_lock(iface, event)
    \/ appletb_suspend_flush
    \/ appletb_suspend_send(0)
    \/ appletb_suspend_store
    \/ \E iface \in {"mode", "disp"} : appletb_reset_resume(iface)

TbPmSpec == Init /\ [][NextTbPm]_vars

\* the worker runs when its work is due, and appletb_suspend goes on
TbPmFairness ==
    /\ WF_vars(appletb_set_tb_worker_send(0, 0, TRUE))
    /\ WF_vars(appletb_set_tb_worker_commit(0, TRUE))
    /\ WF_vars(appletb_suspend_flush)
    /\ WF_vars(appletb_suspend_send(0))
    /\ WF_vars(appletb_suspend_store)

TbPmFairSpec == TbPmSpec /\ TbPmFairness

\* ---- binding and unbinding ----------------------------------------------
\* The two interfaces are bound and unbound in any order, a bind may fail,
\* and the bound interfaces are suspended and resumed in any order.  No
\* interface is bound or unbound between its suspend and the resume of all
\* interfaces.  Reports succeed and no timeout runs out; the count of
\* autopm references stays above -MaxRefs.
NextTbBind ==
    \/ \E iface \in {"mode", "disp"}, fail \in BOOLEAN :
          /\ NoneSuspended
          /\ appletb_probe(iface, appletb_tb_def_idle_timeout,
                           appletb_tb_def_dim_timeout, appletb_tb_def_fn_mode,
                           fail)
    \/ \E iface \in {"mode", "disp"} :
          /\ NoneSuspended
          /\ autopm_refs > -MaxRefs
          /\ appletb_remove(iface, 0, TRUE)
    \/ \E slot \in TbSlots, value \in KeyValues :
          appletb_hid_event(slot, value)
    \/ appletb_set_tb_worker_send(0, 0, TRUE)
    \/ appletb_set_tb_worker_commit(0, TRUE)
    \/ \E iface \in {"mode", "disp"}, event \in PmEvents :
          appletb_suspend_lock(iface, event)
    \/ appletb_suspend_flush
    \/ appletb_suspend_send(0)
    \/ appletb_suspend_store
    \/ \E iface \in {"mode", "disp"} : appletb_reset_resume(iface)

TbBindSpec == Init /\ [][NextTbBind]_vars

\* ---- reports that fail --------------------------------------------------
\* One activation with any timeouts; the reports of the worker fail or
\* succeed; no timeout runs out.
NextTbFail ==
    \/ \E iface \in {"mode", "disp"}, def_idle \in TimeoutValues,
          def_dim \in TimeoutValues :
          appletb_probe(iface, def_idle, def_dim, appletb_tb_def_fn_mode,
                        FALSE)
    \/ \E slot \in TbSlots, value \in KeyValues :
          appletb_hid_event(slot, value)
    \/ \E ev \in InpEvents : appletb_inp_event(ev[1], ev[2])
    \/ \E r1 \in SendResults, r2 \in SendResults :
          appletb_set_tb_worker_send(r1, r2, TRUE)
    \/ appletb_set_tb_worker_commit(0, TRUE)

TbFailSpec == Init /\ [][NextTbFail]_vars

\* the worker runs when its work is due and goes on to its commit
TbFailFairness ==
    /\ WF_vars(\E r1 \in SendResults, r2 \in SendResults :
                  appletb_set_tb_worker_send(r1, r2, TRUE))
    /\ WF_vars(appletb_set_tb_worker_commit(0, TRUE))

TbFailFairSpec == TbFailSpec /\ TbFailFairness

\* ---- the worker and an event handler on two processors ------------------
\* tb_lock is free: no event handler is inside its critical section
LockFree == tb_lock = "none"

\* One activation with the default timeouts, every report delivered, no
\* timeout runs out. The calls of schedule_delayed_work and
\* cancel_delayed_work are steps of their own where the worker makes them
\* without tb_lock; a step that takes tb_lock waits until it is free.
NextTbRace ==
    \/ \E iface \in {"mode", "disp"} :
          /\ LockFree
          /\ appletb_probe(iface, appletb_tb_def_idle_timeout,
                           appletb_tb_def_dim_timeout,
                           appletb_tb_def_fn_mode, FALSE)
    \/ \E slot \in TbSlots, value \in KeyValues :
          LockFree /\ appletb_hid_event(slot, value)
    \/ \E ev \in InpEvents : appletb_inp_event_cancel(ev[1], ev[2])
    \/ appletb_inp_event_schedule
    \/ LockFree /\ appletb_set_tb_worker_send(0, 0, TRUE)
    \/ LockFree /\ appletb_set_tb_worker_decide(0, TRUE)
    \/ appletb_set_tb_worker_resched

TbRaceSpec == Init /\ [][NextTbRace]_vars

\* ---- the contexts that send commands to the touch bar -------------------
\* no appletb_remove is between its cancel_delayed_work_sync and its end
NoRemove == tbrm_pc = "none"

\* Binding, unbinding, suspend and resume with the default timeouts while
\* touch bar keys are pressed; every report is delivered and no timeout
\* runs out. The worker's first critical section and its reports are
\* separate steps, and so are cancel_delayed_work_sync and the commands of
\* appletb_remove. The driver core runs probe, remove, suspend and resume
\* one at a time.
NextTbCmd ==
    \/ \E iface \in {"mode", "disp"} :
          /\ NoneSuspended /\ NoRemove
          /\ appletb_probe(iface, appletb_tb_def_idle_timeout,
                           appletb_tb_def_dim_timeout, appletb_tb_def_fn_mode,
                           FALSE)
    \/ \E iface \in {"mode", "disp"} :
          /\ NoneSuspended /\ autopm_refs > -MaxRefs
          /\ appletb_remove_cancel(iface)
    \/ appletb_remove_finish(0, TRUE)
    \/ \E slot \in TbSlots, value \in KeyValues :
          appletb_hid_event(slot, value)
    \/ appletb_set_tb_worker_start
    \/ appletb_set_tb_worker_reports(0, 0, TRUE)
    \/ appletb_set_tb_worker_commit(0, TRUE)
    \/ \E iface \in {"mode", "disp"} :
          NoRemove /\ appletb_suspend_lock(iface, "suspend")
    \/ appletb_suspend_flush
    \/ appletb_suspend_send(0)
    \/ appletb_suspend_store
    \/ \E iface \in {"mode", "disp"} :
          NoRemove /\ appletb_reset_resume(iface)

TbCmdSpec == Init /\ [][NextTbCmd]_vars

\* ---- a sysfs store step by step -------------------------------------------
\* idle_timeout_store after kstrtol has accepted new: the first assignment
\* of appletb_set_idle_timeout, made without tb_lock
idle_timeout_store_idle(new) ==
    /\ mode_hdev /\ disp_hdev
    /\ upd_pc = "none"
    /\ idle_timeout' = new
    /\ upd_pc' = "idle_stored"
    /\ UNCHANGED <<active, mode_hdev, disp_hdev, last_tb_keys_pressed,
                   last_fn_pressed, elapsed, cur_tb_mode, pnd_tb_mode,
                   cur_tb_disp, pnd_tb_disp, tb_autopm_off, restore_autopm,
                   tb_work, dim_timeout, dim_to_is_calc, fn_mode, wk_pc, wk,
                   dev_disp>>
    /\ UNCHANGED <<spiVars, hr, tb_input_dev, tb_lock, last_tb_keys_translated, tbrm_pc,
                   store_einval, pmVars, autopm_refs>>

\* idle_timeout_store: the rest of appletb_set_idle_timeout, the derived
\* dim timeout, made without tb_lock
idle_timeout_store_dim ==
    /\ upd_pc = "idle_stored"
    /\ dim_timeout' = IdleDerivedDim(idle_timeout, dim_to_is_calc,
                                     dim_timeout)
    /\ upd_pc' = "update"
    /\ UNCHANGED <<active, mode_hdev, disp_hdev, last_tb_keys_pressed,
                   last_fn_pressed, elapsed, cur_tb_mode, pnd_tb_mode,
                   cur_tb_disp, pnd_tb_disp, tb_autopm_off, restore_autopm,
                   tb_work, idle_timeout, dim_to_is_calc, fn_mode, wk_pc, wk,
                   dev_disp>>
    /\ UNCHANGED <<spiVars, hr, tb_input_dev, tb_lock, last_tb_keys_translated, tbrm_pc,
                   store_einval, pmVars, autopm_refs>>

\* idle_timeout_store: appletb_update_touchbar(tb_dev, true), the section
\* under tb_lock, and the return
idle_timeout_store_update ==
    /\ upd_pc = "update"
    /\ LET u == appletb_update_touchbar(TRUE, active, last_tb_keys_pressed,
                    last_fn_pressed, idle_timeout, dim_timeout, fn_mode,
                    cur_tb_mode, cur_tb_disp)
       IN  /\ pnd_tb_mode' = u.pnd_tb_mode
           /\ pnd_tb_disp' = u.pnd_tb_disp
           /\ tb_work' = u.tb_work
    /\ store_einval' = FALSE
    /\ upd_pc' = "none"
    /\ tb_lock' = spin_unlock_irqrestore(tb_lock)
    /\ UNCHANGED <<active, mode_hdev, disp_hdev, last_tb_keys_pressed,
                   last_fn_pressed, elapsed, cur_tb_mode, cur_tb_disp,
                   tb_autopm_off, restore_autopm, idle_timeout, dim_timeout,
                   dim_to_is_calc, fn_mode, wk_pc, wk, dev_disp>>
    /\ UNCHANGED <<spiVars, hr, tb_input_dev, last_tb_keys_translated, tbrm_pc, pmVars,
                   autopm_refs>>

\* ---- tb_lock --------------------------------------------------------------
\* the contexts that take tb_lock in the steps below
LockContexts == {"worker", "hid", "inp"}

\* ctx is at a spin_lock_irqsave(&tb_dev->tb_lock): the worker at its start
\* (its work is due), before its second critical section or before it
\* stores the display of a timeout transition that was sent; a sysfs store
\* when it calls appletb_update_touchbar; an event handler when an event
\* arrives (handlers that find the touch bar not active unlock and return
\* at once and are left out)
AtLockCall(ctx) ==
    IF ctx = "worker"
    THEN \/ wk_pc = "idle" /\ tb_work = 0
         \/ wk_pc = "commit"
         \/ wk_pc = "timeout"
    ELSE IF ctx = "store" THEN upd_pc = "update"
    ELSE active /\ upd_pc = "none"

\* spin_lock_irqsave(&tb_dev->tb_lock) returns in ctx
spin_lock_irqsave(ctx) ==
    /\ tb_lock = "none"
    /\ AtLockCall(ctx)
    /\ tb_lock' = ctx
    /\ UNCHANGED <<spiVars, hr, tb_input_dev, active, mode_hdev, disp_hdev,
                   last_tb_keys_pressed, last_fn_pressed, elapsed,
                   cur_tb_mode, pnd_tb_mode, cur_tb_disp, pnd_tb_disp,
                   tb_autopm_off, restore_autopm, tb_work, dim_timeout,
                   idle_timeout, dim_to_is_calc, fn_mode, wk_pc, wk,
                   dev_disp, store_einval, pmVars, autopm_refs, upd_pc,
                   tbrm_pc, last_tb_keys_translated>>

\* One activation with the default timeouts, every report delivered, no
\* timeout runs out; taking tb_lock is a step of its own, a section under
\* the lock ends with its release, and reports, timer calls and input
\* events made without the lock are steps of their own.
NextTbLock ==
    \/ \E iface \in {"mode", "disp"} :
          /\ tb_lock = "none"
          /\ appletb_probe(iface, appletb_tb_def_idle_timeout,
                           appletb_tb_def_dim_timeout,
                           appletb_tb_def_fn_mode, FALSE)
    \/ \E ctx \in LockContexts : spin_lock_irqsave(ctx)
    \/ \E slot \in TbSlots, value \in KeyValues :
          tb_lock = "hid" /\ appletb_hid_event_decide(slot, value)
    \/ appletb_hid_event_emit
    \/ \E ev \in InpEvents :
          tb_lock = "inp" /\ appletb_inp_event(ev[1], ev[2])
    \/ tb_lock = "worker" /\ appletb_set_tb_worker_start
    \/ appletb_set_tb_worker_reports(0, 0, TRUE)
    \/ tb_lock = "worker" /\ appletb_set_tb_worker_decide(0, TRUE)
    \/ appletb_set_tb_worker_resched

TbLockSpec == Init /\ [][NextTbLock]_vars

\* Writes of idle_timeout while the worker runs at a timeout edge: every
\* report is delivered; taking tb_lock is a step of its own, a section
\* under the lock ends with its release, and what the worker and the store
\* do without the lock are steps of their own.
NextTbStore ==
    \/ \E new \in TimeoutValues : idle_timeout_store_idle(new)
    \/ idle_timeout_store_dim
    \/ \E ctx \in {"worker", "store"} : spin_lock_irqsave(ctx)
    \/ tb_lock = "store" /\ idle_timeout_store_update
    \/ tb_lock = "worker" /\ appletb_set_tb_worker_start
    \/ appletb_set_tb_worker_reports(0, 0, TRUE)
    \/ tb_lock = "worker" /\ appletb_set_tb_worker_decide(0, TRUE)
    \/ appletb_set_tb_worker_timeout_send(0, TRUE)
    \/ tb_lock = "worker" /\ appletb_set_tb_worker_timeout
    \/ appletb_set_tb_worker_resched

TbStoreSpec == EdgeInit /\ [][NextTbStore]_vars

SpiSpec == Init /\ [][NextSpi]_vars

\* Scheduling the code relies on: the transport finishes every message it
\* has accepted, a started callback or a woken applespi_remove runs on, and
\* the device delivers the response it owes for an accepted command.
SpiFairness ==
    /\ WF_vars(\E ok \in BOOLEAN : applespi_async_write_complete(ok))
    /\ WF_vars(applespi_async_read_error
                    \/ \E t \in PktTypes : applespi_got_data(t, NoKeysFrame))
    /\ WF_vars(applespi_cmd_msg_complete)
    /\ WF_vars(applespi_remove_wait_write)
    /\ WF_vars(applespi_remove_gpe)
    /\ WF_vars(applespi_remove_wait_read)
    /\ WF_vars(resp_owed /\ applespi_notify)
    /\ SF_vars(applespi_got_data("write", NoKeysFrame))

SpiFairSpec == SpiSpec /\ SpiFairness

\* The device stays bound: the handlers of the command queue without
\* applespi_remove.
NextSpiBound ==
    \/ applespi_init
    \/ \E b \in BOOLEAN : applespi_set_capsl_led(b)
    \/ \E v \in BrightnessValues : applespi_set_bl_level(v)
    \/ \E ok \in BOOLEAN : applespi_async_write_complete(ok)
    \/ applespi_notify
    \/ applespi_async_read_error
    \/ \E t \in PktTypes : applespi_got_data(t, NoKeysFrame)
    \/ applespi_cmd_msg_complete

SpiBoundSpec == Init /\ [][NextSpiBound]_vars

\* SpiFairness without the steps of applespi_remove
SpiBoundFairness ==
    /\ WF_vars(\E ok \in BOOLEAN : applespi_async_write_complete(ok))
    /\ WF_vars(applespi_async_read_error
                    \/ \E t \in PktTypes : applespi_got_data(t, NoKeysFrame))
    /\ WF_vars(applespi_cmd_msg_complete)
    /\ WF_vars(resp_owed /\ applespi_notify)
    /\ SF_vars(applespi_got_data("write", NoKeysFrame))

SpiBoundFairSpec == SpiBoundSpec /\ SpiBoundFairness

\* commands handed to the transport and not yet completed: the write
\* message is queued, or the device still owes the response, or the response
\* has been read and applespi_cmd_msg_complete has not run yet
CmdInFlight ==
    wr_m + (IF resp_owed THEN 1 ELSE 0)
         + (IF rd_pc = "notify_complete" THEN 1 ELSE 0)

C9_RemoveTerminates == (rm_pc # "none") ~> (rm_pc = "done")

\* backlight levels applespi_set_bl_level can store
BlLevels == {BlLevel(v) : v \in BrightnessValues}

\* the hypotheses of C2: the queue is not torn down, no write is rejected or
\* ends with a bad status, the response the device owes
\* for a write is eventually read (with SpiFairness: every issued write is
\* eventually notified complete), and init requests (probe, resume) stop
\* arriving
C2_Hyp ==
    /\ []~drain
    /\ []~wr_err
    /\ (resp_owed ~> ~resp_owed)
    /\ <>[](init_cmd_idx = -1)

AnyTbKeyPressed == appletb_any_tb_key_pressed(last_tb_keys_pressed)

\* the mode and display the controller counts on: pending if set, else
\* current
EffMode == appletb_get_cur_tb_mode(pnd_tb_mode, cur_tb_mode)

EffDisp == appletb_get_cur_tb_disp(pnd_tb_disp, cur_tb_disp)

\* the desired mode and display of the present configuration
WantMode == want_mode(idle_timeout, fn_mode, last_fn_pressed)

WantDisp == want_disp(idle_timeout, dim_timeout)

\* a step that activates the touch bar: appletb_probe of the second
\* interface, which ends with appletb_update_touchbar(tb_dev, false)
ProbeUpdateStep ==
    /\ ~active /\ active'
    /\ \E iface \in {"mode", "disp"} :
          appletb_probe(iface, idle_timeout', IF dim_to_is_calc' THEN -2
                                              ELSE dim_timeout',
                        fn_mode', FALSE)

\* a step in which appletb_update_touchbar_no_lock runs with force = false
UnforcedUpdateStep ==
    \/ \E slot \in TbSlots, value \in KeyValues :
          appletb_hid_event(slot, value)
    \/ \E ev \in InpEvents : appletb_inp_event(ev[1], ev[2])
    \/ (active /\ fnmode_store(snprintf_d(fn_mode')))
    \/ ProbeUpdateStep

\* a step in which appletb_update_touchbar_no_lock runs with force = true
ForcedUpdateStep ==
    /\ active
    /\ \/ idle_timeout_store(snprintf_d(idle_timeout'))
       \/ \E new \in TimeoutValues : dim_timeout_store(snprintf_d(new))

\* a step in which appletb_update_touchbar_no_lock runs
UpdateStep == UnforcedUpdateStep \/ ForcedUpdateStep

\* C3: a step that changes pnd_tb_mode while a touch bar key is marked
\* pressed is not an update without force: such an update leaves pnd_tb_mode
\* as it was, so a pending mode that was unset stays unset.
C3_ModeSuppressed ==
    [][(AnyTbKeyPressed' /\ pnd_tb_mode' # pnd_tb_mode)
          => ~UnforcedUpdateStep]_vars

\* C3 witness: Fn has been pressed while a touch bar key was held (Fn mode
\* "normal"): the function-key layout is desired, the special layout is
\* current, and no mode is pending
C3_Witness ==
    /\ active /\ AnyTbKeyPressed
    /\ idle_timeout # -2
    /\ fn_mode = APPLETB_FN_MODE_NORM /\ last_fn_pressed
    /\ cur_tb_mode = APPLETB_CMD_MODE_SPCL
    /\ pnd_tb_mode = APPLETB_CMD_MODE_NONE

ForceOnlySchedules ==
    /\ tb_work' = 0
    /\ AnyTbKeyPressed' =>
          /\ pnd_tb_mode' = pnd_tb_mode
          /\ (pnd_tb_disp' # pnd_tb_disp
                => pnd_tb_disp' # APPLETB_CMD_DISP_OFF)
    /\ ~AnyTbKeyPressed' =>
          (EffMode' = WantMode' /\ EffDisp' = WantDisp')

C5_DispOffSuppressed ==
    [][(/\ pnd_tb_disp' # pnd_tb_disp
        /\ \/ pnd_tb_disp' # WantDisp'
           \/ (AnyTbKeyPressed' /\ WantDisp' = APPLETB_CMD_DISP_OFF))
          => ~UnforcedUpdateStep]_vars

\* C5 witness: the touch bar was activated with "display off" configured
\* while a key was still marked pressed and display On was still pending:
\* the update has left the pending display alone
C5_Witness ==
    /\ active /\ AnyTbKeyPressed
    /\ WantDisp = APPLETB_CMD_DISP_OFF
    /\ pnd_tb_disp = APPLETB_CMD_DISP_ON

\* the effective state is the one the configuration asks for: mode Off and
\* display Off if idle_timeout = -2; otherwise display Off if
\* idle_timeout = 0, else Dim if dim_timeout = 0, else On
DesiredStateInEffect ==
    IF idle_timeout = -2
    THEN /\ EffMode = APPLETB_CMD_MODE_OFF
         /\ EffDisp = APPLETB_CMD_DISP_OFF
    ELSE /\ EffMode # APPLETB_CMD_MODE_OFF
         /\ EffDisp = IF idle_timeout = 0 THEN APPLETB_CMD_DISP_OFF
                      ELSE IF dim_timeout = 0 THEN APPLETB_CMD_DISP_DIM
                      ELSE APPLETB_CMD_DISP_ON

\* C6: after an update with no key pressed the effective state is the
\* desired state of the configuration, as given by DesiredStateInEffect.
C6_DesiredState ==
    [][DesiredStateInEffect' \/ AnyTbKeyPressed' \/ ~UpdateStep]_vars

\* C6 witness: idle_timeout = -2 has been stored while the touch bar was
\* dimmed: mode Off and display Off are pending
C6_Witness ==
    /\ active /\ ~AnyTbKeyPressed
    /\ idle_timeout = -2
    /\ cur_tb_mode # APPLETB_CMD_MODE_OFF
    /\ cur_tb_disp = APPLETB_CMD_DISP_DIM
    /\ pnd_tb_mode = APPLETB_CMD_MODE_OFF
    /\ pnd_tb_disp = APPLETB_CMD_DISP_OFF

\* the Fn table as the claim states it: fn_mode 0 always the special
\* layout, 1 the special layout unless Fn is held, 2 the function-key layout
\* unless Fn is held, 3 always the function-key layout
FnTableAsStated ==
    IF fn_mode = 0 THEN APPLETB_CMD_MODE_SPCL
    ELSE IF fn_mode = 1
         THEN (IF last_fn_pressed THEN APPLETB_CMD_MODE_FN
               ELSE APPLETB_CMD_MODE_SPCL)
    ELSE IF fn_mode = 2
         THEN (IF last_fn_pressed THEN APPLETB_CMD_MODE_SPCL
               ELSE APPLETB_CMD_MODE_FN)
    ELSE APPLETB_CMD_MODE_FN

\* the Fn table with the rows of fn_mode 0 and 3 exchanged: fn_mode 0
\* always the function-key layout, 3 always the special layout
FnTableAmended ==
    IF fn_mode = 0 THEN APPLETB_CMD_MODE_FN
    ELSE IF fn_mode = 1
         THEN (IF last_fn_pressed THEN APPLETB_CMD_MODE_FN
               ELSE APPLETB_CMD_MODE_SPCL)
    ELSE IF fn_mode = 2
         THEN (IF last_fn_pressed THEN APPLETB_CMD_MODE_SPCL
               ELSE APPLETB_CMD_MODE_FN)
    ELSE APPLETB_CMD_MODE_SPCL

\* C7 (the claim as stated): after an update with no key pressed and the
\* touch bar not disabled, the effective mode is the one of FnTableAsStated.
C7_FnTableAsStated ==
    [][EffMode' = FnTableAsStated' \/ idle_timeout' = -2
          \/ AnyTbKeyPressed' \/ ~UpdateStep]_vars

\* C7 (amended): after an update with no key pressed and the touch bar not
\* disabled, the effective mode is the one of FnTableAmended.
C7_FnTable ==
    [][EffMode' = FnTableAmended' \/ idle_timeout' = -2
          \/ AnyTbKeyPressed' \/ ~UpdateStep]_vars

\* C7 witness: fn_mode 0 has been stored while the special layout was
\* shown: the function-key layout is pending
C7_Witness ==
    /\ active /\ ~AnyTbKeyPressed
    /\ idle_timeout # -2
    /\ fn_mode = 0 /\ ~last_fn_pressed
    /\ cur_tb_mode = APPLETB_CMD_MODE_SPCL
    /\ pnd_tb_mode = APPLETB_CMD_MODE_FN

\* the configuration wants the display on
WantsDispOn == WantDisp # APPLETB_CMD_DISP_OFF

\* C10 (the claim as stated): while the controller is active and the
\* configuration wants the display on, an input event (which resets the
\* idle time) is followed by the device showing the desired display (On, or
\* Dim if dim_timeout = 0), unless the controller is deactivated.
C10_EventLightsDisplay ==
    (active /\ WantsDispOn /\ elapsed = 0)
       ~> (dev_disp = WantDisp \/ ~active)

\* no input event has arrived for idle_timeout seconds or more
IdleTimeoutPassed == idle_timeout > 0 /\ elapsed >= idle_timeout

\* a step of the worker's timeout path in a run that has sent no mode
\* report
TimeoutPathStep ==
    /\ wk_pc' # wk_pc
    /\ (wk_pc' = "timeout" \/ wk_pc = "timeout")
    /\ wk.rc1 # 0

NearerTimeout ==
    IF idle_timeout > 0
    THEN (IF dim_timeout > 0 /\ dim_timeout < idle_timeout
          THEN dim_timeout ELSE idle_timeout)
    ELSE IF idle_timeout = -1 THEN dim_timeout
    ELSE -1

\* C12: a run of the worker that finds the rounded idle time smaller than
\* the nearer timeout sends no display report, leaves cur_tb_disp alone and
\* re-schedules itself for the nearer timeout minus the idle time, in whole
\* seconds; with idle 300, dim 270 and 250 s of idle time that is 20 s.
C12_RescheduleEdge ==
    [][(/\ wk_pc = "commit" /\ wk_pc' # "commit"
        /\ NearerTimeout > 0 /\ elapsed < NearerTimeout)
          => /\ wk_pc' = "idle"
             /\ UNCHANGED <<dev_disp, cur_tb_disp>>
             /\ tb_work' = NearerTimeout - elapsed
             /\ (idle_timeout = 300 /\ dim_timeout = 270 /\ elapsed = 250)
                   => tb_work' = 20]_vars

\* C12 witness: idle 300, dim 270 (derived), 250 s idle: the worker has run
\* and is scheduled again in 20 s, the display still On
C12_Witness ==
    /\ idle_timeout = 300 /\ dim_timeout = 270 /\ dim_to_is_calc
    /\ elapsed = 250
    /\ wk_pc = "idle" /\ tb_work = 20
    /\ cur_tb_disp = APPLETB_CMD_DISP_ON /\ dev_disp = APPLETB_CMD_DISP_ON

\* C13: while the dim timeout is derived (dim_timeout written as -2) and
\* idle_timeout > 0, dim_timeout = idle_timeout - min(30, idle_timeout / 3),
\* e.g. 300 gives 270 and 60 gives 40, after every change of idle_timeout
C13_DerivedDim ==
    (dim_to_is_calc /\ idle_timeout > 0) =>
        /\ dim_timeout = idle_timeout
              - (IF idle_timeout \div 3 < 30 THEN idle_timeout \div 3 ELSE 30)
        /\ idle_timeout = 300 => dim_timeout = 270
        /\ idle_timeout = 60 => dim_timeout = 40

C13_Witness ==
    /\ dim_to_is_calc /\ idle_timeout = 60 /\ dim_timeout = 40
    /\ ~store_einval /\ active /\ tb_work = 0

\* text that is no number at all
MalformedBufs ==
    {<<>>, <<"\n">>, <<"x">>, <<"-">>, <<"1", "2", "a">>, <<"0", "8">>,
     <<"0", "x">>}

\* numbers below -2 or above INT_MAX
OutOfIntBufs ==
    {<<"-", "3", "\n">>,
     <<"2", "1", "4", "7", "4", "8", "3", "6", "4", "8", "\n">>,
     <<"-", "2", "1", "4", "7", "4", "8", "3", "6", "4", "9">>,
     <<"9", "9", "9", "9", "9", "9", "9", "9", "9", "9",
       "9", "9", "9", "9", "9", "9", "9", "9", "9", "9">>}

\* numbers outside 0 .. 3
OutOfFnModeBufs ==
    OutOfIntBufs
        \cup {snprintf_d(n) : n \in {-2, -1, 60, 300, INT_MAX}}
        \cup {<<"4", "\n">>}

\* a write of malformed or out-of-domain text to one of the attributes
BadStoreStep ==
    \/ \E buf \in MalformedBufs \cup OutOfIntBufs :
          idle_timeout_store(buf) \/ dim_timeout_store(buf)
    \/ \E buf \in MalformedBufs \cup OutOfFnModeBufs : fnmode_store(buf)

\* C18: a write of malformed or out-of-domain text to idle_timeout,
\* dim_timeout or fn_mode returns an error and leaves the timeouts, the
\* derived flag, fn_mode, the pending slots and the worker schedule as they
\* were
C18_BadWriteRejected ==
    [][(/\ store_einval'
        /\ UNCHANGED <<idle_timeout, dim_timeout, dim_to_is_calc, fn_mode,
                       pnd_tb_mode, pnd_tb_disp, tb_work>>)
       \/ ~BadStoreStep]_vars

C18_Witness ==
    /\ store_einval /\ active
    /\ idle_timeout = 60 /\ dim_timeout = 40 /\ dim_to_is_calc
    /\ fn_mode = 2 /\ pnd_tb_mode # APPLETB_CMD_MODE_NONE /\ tb_work = 0

\* an accepted write to fn_mode while the driver is active
FnModeStoreStep == active /\ fnmode_store(snprintf_d(fn_mode'))

TbAtRest == wk_pc = "idle" /\ sp.pc = "none" /\ mode_hdev /\ disp_hdev

\* C14: whenever the driver is at rest it holds exactly one keep-awake
\* reference on the display interface while cur_tb_disp is On or Dim and
\* none while cur_tb_disp is Off
C14_RefHeldIffDisplayOn ==
    TbAtRest =>
        autopm_refs = (IF cur_tb_disp = APPLETB_CMD_DISP_OFF THEN 0 ELSE 1)

\* appletb_suspend goes on after flush_delayed_work with all interfaces
\* suspended: the step that sends mode Off and display Off
SuspendSendStep == sp.pc = "flush" /\ sp'.pc = "sent"

\* appletb_suspend returns with all interfaces suspended
SuspendReturnStep == sp.pc = "sent" /\ sp'.pc = "none"

\* C15: appletb_suspend sends mode Off and display Off only when no worker
\* run is in progress or queued, and when the suspend of the last bound
\* interface returns cur_tb_mode and cur_tb_disp are Off
C15_SuspendAfterWorker ==
    /\ [][SuspendSendStep => (wk_pc = "idle" /\ tb_work # 0)]_vars
    /\ [][SuspendReturnStep =>
            /\ cur_tb_mode' = APPLETB_CMD_MODE_OFF
            /\ cur_tb_disp' = APPLETB_CMD_DISP_OFF]_vars

\* C15 witness: the suspend of the last interface has waited for a worker
\* run (which has set its timer again) and has sent display Off
C15_Witness ==
    /\ sp.pc = "sent" /\ sp.event = "suspend"
    /\ mode_suspended /\ disp_suspended
    /\ cur_tb_disp = APPLETB_CMD_DISP_ON /\ dev_disp = APPLETB_CMD_DISP_OFF
    /\ wk_pc = "idle" /\ tb_work > 0

\* both interfaces are resumed, no suspend has begun since, and the key
\* flags are keys and fn
ResumedWith(keys, fn) ==
    /\ active /\ NoneSuspended /\ sp.pc = "none"
    /\ last_tb_keys_pressed = keys /\ last_fn_pressed = fn

\* C16: after the resume of both interfaces cur_tb_mode and cur_tb_disp
\* become the desired mode and display, whatever the key flags are, unless
\* an input event changes the key flags or a suspend begins before
C16_ResumeRestores ==
    \A keys \in [TbSlots -> BOOLEAN], fn \in BOOLEAN :
        (ResumedWith(keys, fn) /\ restore_autopm)
            ~> \/ (cur_tb_mode = WantMode /\ cur_tb_disp = WantDisp)
               \/ ~ResumedWith(keys, fn)

\* a key event of the touch bar, the keyboard or the touchpad is handled
EventStep ==
    \/ \E slot \in TbSlots, value \in KeyValues :
          appletb_hid_event(slot, value)
    \/ \E ev \in InpEvents : appletb_inp_event(ev[1], ev[2])

\* a mode or display is pending, and no worker run is in progress, queued
\* or set for a later time: the command for it has failed
FailedPending ==
    /\ active /\ wk_pc = "idle" /\ tb_work = -1
    /\ \/ pnd_tb_mode # APPLETB_CMD_MODE_NONE
       \/ pnd_tb_disp # APPLETB_CMD_DISP_NONE

\* C17: a mode or display whose command has failed stays pending and is
\* sent again at the next key event: the event queues the worker
C17_FailedCommandResent ==
    [][(FailedPending => tb_work' = 0) \/ ~EventStep]_vars

\* ---- the sequence values of the commands --------------------------------
\* Requests, the end of writes and the responses of the device, with the
\* sequence value of the last accepted command followed; spi_async rejects
\* at most MaxLost caps-lock or backlight commands between two that it
\* accepts.
SeqGap == (cmd_msg_cntr + 255 - dev_seq) % 256

SeqBounded == dev_seq' # SeqNone => SeqGap' <= MaxLost

NextSpiSeq ==
    \/ applespi_init
    \/ \E b \in BOOLEAN : applespi_set_capsl_led(b) /\ SeqBounded
    \/ \E v \in BrightnessValues : applespi_set_bl_level(v) /\ SeqBounded
    \/ \E ok \in BOOLEAN : applespi_async_write_complete(ok) /\ SeqBounded
    \/ applespi_notify
    \/ applespi_got_data("write", NoKeysFrame)
    \/ applespi_cmd_msg_complete /\ SeqBounded

InitSeq == InitSpi /\ InitTb /\ dev_seq = SeqNone

SpiSeqSpec == InitSeq /\ [][NextSpiSeq]_vars

\* ---- receive side of the keyboard ---------------------------------------

\* the interrupt, the end of the read it starts and the frames read; no
\* command is written
NextSpiRx ==
    \/ applespi_notify
    \/ applespi_async_read_error
    \/ \E t \in PktTypes \ {"write"}, frame \in KbdFrames :
           applespi_got_data(t, frame)

SpiRxSpec == Init /\ [][NextSpiRx]_vars

\* a keyboard frame whose checksum is not the one of its payload is handled
BadCrcStep ==
    \E frame \in {f \in KbdFrames : ~CrcMatches(f)} :
        applespi_got_data("keyb", frame)

\* C20: a received keyboard frame whose CRC-16 does not match its payload
\* is dropped: it changes no key state, no key that the input device holds
\* (so no input event) and no command-queue state
C20_BadCrcDropped ==
    [][UNCHANGED <<kbdVars, cmd_msg_queued, cmd_msg_cntr, tx_buffer, wr_m>>
       \/ ~BadCrcStep]_vars

\* ---- the command queue keeps no history ---------------------------------

\* a caps-lock or backlight request
RequestStep ==
    \/ \E b \in BOOLEAN : applespi_set_capsl_led(b)
    \/ \E v \in BrightnessValues : applespi_set_bl_level(v)

\* the step builds a caps-lock or backlight command
BuildsLedCmd == cmd_msg_cntr' # cmd_msg_cntr

\* C21: a request made while a command write is in flight issues no write
\* and builds no command; every caps-lock or backlight command that is
\* built carries the value requested last for its setting, so that a value
\* requested and replaced in between is not sent.
C21_LatestValueOnly ==
    /\ [][~cmd_msg_queued
          \/ (tx_buffer' = tx_buffer /\ wr_m' = wr_m
                /\ cmd_msg_cntr' = cmd_msg_cntr)
          \/ ~RequestStep]_vars
    /\ [][BuildsLedCmd =>
            \/ /\ tx_buffer'.kind = "cl"
               /\ tx_buffer'.val = (IF want_cl_led_on' THEN 2 ELSE 0)
            \/ /\ tx_buffer'.kind = "bl"
               /\ tx_buffer'.val = want_bl_level']_vars

\* C21 witness: the backlight command built after a caps-lock command is in
\* flight with the level requested last before it was built, and a level
\* requested during its flight waits without a write of its own
C21_Witness ==
    /\ cmd_msg_queued /\ wr_m = 1 /\ ~wr_err
    /\ have_cl_led_on
    /\ tx_buffer.kind = "bl" /\ tx_buffer.seq = 1 /\ cmd_msg_cntr = 2
    /\ tx_buffer.val = have_bl_level
    /\ want_bl_level # have_bl_level

\* ---- the controller is active only with both interfaces -----------------

LedCmdAccepted == BuildsLedCmd /\ cmd_msg_queued'

\* C23 (the claim as stated): a caps-lock or backlight command that the
\* transport accepts carries a sequence value one greater (modulo 256) than
\* the caps-lock or backlight command that the transport accepted before it.
C23_SeqFollowsTransmitted ==
    [][(LedCmdAccepted /\ dev_seq # SeqNone)
          => tx_buffer'.seq = (dev_seq + 1) % 256]_vars

\* C23 (amended): every caps-lock or backlight command that is built carries
\* the counter, which then is one greater (modulo 256), whether or not
\* spi_async accepts the command: the value is one greater than that of the
\* command built before, and one greater than that of the command accepted
\* before when no command was rejected in between.
C23_SeqFollowsBuilt ==
    /\ [][BuildsLedCmd =>
            /\ tx_buffer'.seq = cmd_msg_cntr
            /\ cmd_msg_cntr' = (tx_buffer'.seq + 1) % 256]_vars
    /\ [][(LedCmdAccepted /\ dev_seq # SeqNone /\ SeqGap = 0)
            => tx_buffer'.seq = (dev_seq + 1) % 256]_vars

\* C23 witness: the command with sequence value 0 has been accepted after
\* the one with 255, which was the last accepted
C23_Witness ==
    /\ cmd_msg_queued /\ wr_m = 1
    /\ tx_buffer.kind = "cl" /\ tx_buffer.seq = 0 /\ dev_seq = 0
    /\ cmd_msg_cntr = 1
    /\ have_bl_level # 0

\* ---- the timeouts of an activation --------------------------------------

ModeSuperseded(v) ==
    /\ wk_pc = "commit"
    /\ v # APPLETB_CMD_MODE_NONE /\ v # wk.pending_mode
    /\ pnd_tb_mode = v

DispSuperseded(v) ==
    /\ wk_pc = "commit"
    /\ v # APPLETB_CMD_DISP_NONE /\ v # wk.pending_disp
    /\ pnd_tb_disp = v

\* the modes and displays a slot can hold
TbModes == {APPLETB_CMD_MODE_ESC, APPLETB_CMD_MODE_FN, APPLETB_CMD_MODE_SPCL,
            APPLETB_CMD_MODE_OFF}
TbDisps == {APPLETB_CMD_DISP_ON, APPLETB_CMD_DISP_DIM, APPLETB_CMD_DISP_OFF}

\* C25: a mode or display value set while the worker sends an older one is
\* still pending after the worker's commit, a run of the worker is then
\* scheduled at zero delay, and a later run sends the value unless it has
\* been replaced by then.
C25_SupersededNotLost ==
    /\ [][wk_pc = "commit" /\ wk_pc' # "commit" =>
            /\ \A v \in TbModes :
                  ModeSuperseded(v) => pnd_tb_mode' = v /\ tb_work' = 0
            /\ \A v \in TbDisps :
                  DispSuperseded(v) => pnd_tb_disp' = v /\ tb_work' = 0]_vars
    /\ \A v \in TbModes :
          ModeSuperseded(v) ~>
             \/ wk_pc = "commit" /\ wk.pending_mode = v
             \/ pnd_tb_mode # v
    /\ \A v \in TbDisps :
          DispSuperseded(v) ~>
             \/ wk_pc = "commit" /\ wk.pending_disp = v
             \/ pnd_tb_disp # v

\* C25 witness: the worker has sent a mode with success, and the slot holds
\* another mode, set since
C25_Witness ==
    /\ wk_pc = "commit" /\ wk.rc1 = 0
    /\ wk.pending_mode # APPLETB_CMD_MODE_NONE
    /\ pnd_tb_mode # APPLETB_CMD_MODE_NONE
    /\ pnd_tb_mode # wk.pending_mode

\* ---- scheduling of the worker by an update ------------------------------

\* an event handler that has set a pending slot returns
UpdateReturns == upd_pc = "schedule" /\ upd_pc' = "none"

\* C26: when an update that has set a pending slot returns, the worker's
\* next run is scheduled with zero delay, whatever a worker that runs at
\* the same time does. Violated: the worker calls schedule_delayed_work
\* with the delay it computed before the change between the update's
\* cancel_delayed_work and its schedule_delayed_work, which then does
\* nothing.
C26_UpdateSchedulesAtZero == [][UpdateReturns => tb_work' = 0]_vars

\* ---- timeout transitions and pressed keys -------------------------------

\* the worker sends the display command of a timeout transition
TimeoutSendStep == wk_pc = "dimsend" /\ wk_pc' = "timeout"

\* C27: the worker sends no Dim or Off command for a timeout while a touch
\* bar key is marked pressed. Violated: the worker reads the keys under
\* tb_lock and sends after releasing it; appletb_hid_event can mark a key
\* pressed in between.
C27_NoTimeoutSendWhilePressed ==
    [][TimeoutSendStep =>
          ~appletb_any_tb_key_pressed(last_tb_keys_pressed)]_vars

\* ---- one command at a time ----------------------------------------------

\* C28: while the worker is between the start of its mode command and the
\* end of its display command, no appletb_remove is sending its commands
\* and appletb_suspend does not send its. Violated: appletb_remove leaves
\* active set until after its commands, so a key event schedules the
\* worker, which runs while appletb_remove is sending.
C28_OneCommandAtATime ==
    /\ [](wk_pc = "sending" => tbrm_pc = "none")
    /\ [][wk_pc = "sending" => ~SuspendSendStep]_vars

\* ---- no device I/O and no input event under tb_lock ---------------------

\* the worker sends its reports for the pending mode and display
WorkerReportsStep == wk_pc = "sending" /\ wk_pc' = "commit"

\* appletb_hid_event calls input_event
HidEmitStep == upd_pc \in {"emit_dummy", "emit_trnsl"} /\ upd_pc' = "none"

\* C29: the worker sends its reports and appletb_hid_event emits its input
\* events only when they do not hold tb_lock: each has decided under the
\* lock and released it before.
C29_NoIoUnderLock ==
    [][/\ WorkerReportsStep => tb_lock # "worker"
       /\ HidEmitStep => tb_lock # "hid"]_vars

\* C29 witness: appletb_hid_event has decided under tb_lock to emit the
\* dummy key, and the worker has read the pending values under tb_lock and
\* is about to send them
C29_Witness ==
    /\ upd_pc = "emit_dummy"
    /\ wk_pc = "sending"
    /\ wk.pending_disp # APPLETB_CMD_DISP_NONE

\* ---- the mode and display state and tb_lock -----------------------------

\* the mode and display state: current and pending mode and display, the
\* timeouts, the derive flag, fn_mode, the pressed keys, the time of the
\* last event (as the time since) and tb_autopm_off
TbState ==
    <<cur_tb_mode, pnd_tb_mode, cur_tb_disp, pnd_tb_disp, idle_timeout,
      dim_timeout, dim_to_is_calc, fn_mode, last_tb_keys_pressed,
      last_fn_pressed, elapsed, tb_autopm_off>>

\* C30: a step that writes the mode and display state is the section of
\* the context that holds tb_lock (which ends with the release). Violated:
\* idle_timeout_store assigns idle_timeout and dim_timeout before it takes
\* the lock, and appletb_set_tb_disp assigns tb_autopm_off without it.
C30_StateAccessUnderLock ==
    [][TbState' # TbState => tb_lock # "none" /\ tb_lock' = "none"]_vars

\* ---- the command queue's current values ---------------------------------

\* a caps-lock or backlight command has been built and spi_async has
\* rejected it
LedCmdRejected == cmd_msg_cntr' # cmd_msg_cntr /\ ~cmd_msg_queued'

\* C31: the current values and the position in the init sequence advance
\* only with a write that succeeds: after a write that spi_async rejects
\* the setting the command carried still differs from the wanted one, an
\* advance of the init position goes with an accepted write, and after a
\* write that completes with a bad status the caps-lock command is built
\* again. Violated: applespi_send_cmd_msg assigns have_cl_led_on,
\* have_bl_level and init_cmd_idx before it calls spi_async.
C31_AdvanceOnlyOnSuccess ==
    [][/\ (LedCmdRejected /\ tx_buffer'.kind = "cl")
             => want_cl_led_on' # have_cl_led_on'
       /\ (LedCmdRejected /\ tx_buffer'.kind = "bl")
             => want_bl_level' # have_bl_level'
       /\ (init_cmd_idx' # init_cmd_idx /\ init_cmd_idx' # 0)
             => cmd_msg_queued'
       /\ (/\ ~drain /\ init_cmd_idx = -1 /\ tx_buffer.kind = "cl"
           /\ wr_m > 0 /\ wr_m' = wr_m - 1 /\ ~resp_owed' /\ ~resp_owed
           /\ rd_pc' = rd_pc /\ rm_pc' = rm_pc)
             => cmd_msg_cntr' # cmd_msg_cntr]_vars

\* C32: the next command is picked in the order init, caps-lock, backlight:
\* a caps-lock or backlight command is built only when no init command is
\* pending, a caps-lock command carries the wanted state, and a backlight
\* command is built only when the caps-lock state is the wanted one.
C32_PriorityOrder ==
    [][BuildsLedCmd =>
         /\ init_cmd_idx = -1 /\ init_cmd_idx' = -1
         /\ tx_buffer'.kind = "cl" =>
               /\ have_cl_led_on' # have_cl_led_on
               /\ have_cl_led_on' = want_cl_led_on'
         /\ tx_buffer'.kind = "bl" =>
               /\ have_cl_led_on' = have_cl_led_on
               /\ have_cl_led_on' = want_cl_led_on'
               /\ have_bl_level' = want_bl_level']_vars

\* C32 witness: the first caps-lock command has been handed to the
\* transport while a backlight level is still to be sent
C32_Witness ==
    /\ init_cmd_idx = -1
    /\ cmd_msg_queued /\ tx_buffer.kind = "cl" /\ tx_buffer.seq = 0
    /\ have_cl_led_on /\ want_cl_led_on
    /\ want_bl_level # have_bl_level

\* ---- teardown of the touch bar controller --------------------------------

\* appletb_remove of an interface, with both bound, returns
RemoveReturns == tbrm_pc # "none" /\ tbrm_pc' = "none"

\* C33: when appletb_remove has deactivated the touch bar and returns, no
\* worker run is executing and none is scheduled. Violated:
\* cancel_delayed_work_sync comes before the commands of appletb_remove and
\* active is cleared after them, so a key event in between schedules the
\* worker again.
C33_TeardownStopsWorker ==
    [][RemoveReturns =>
          /\ wk_pc' = "idle"
          /\ tb_work' = cancel_delayed_work(tb_work')]_vars

\* ---- translated touch bar keys -------------------------------------------

\* the slots of KEY_F1 ..., the keys that appletb_fn_codes translates
FnKeySlots == 1 .. NumTbKeys

\* the model follows the slots of the function keys
InitKeys == InitSpi /\ InitTbSlots(FnKeySlots, {}) /\ dev_seq = SeqOff

\* Function keys of the touch bar, the Fn key and the idle_timeout
\* attribute: every report is delivered and no timeout runs out.
NextTbKeys ==
    \/ \E iface \in {"mode", "disp"} :
          appletb_probe(iface, appletb_tb_def_idle_timeout,
                        appletb_tb_def_dim_timeout, appletb_tb_def_fn_mode,
                        FALSE)
    \/ \E slot \in FnKeySlots, value \in KeyValues :
          appletb_hid_event(slot, value)
    \/ \E ev \in InpEvents : appletb_inp_event(ev[1], ev[2])
    \/ \E new \in TimeoutValues : idle_timeout_store(snprintf_d(new))
    \/ appletb_set_tb_worker_send(0, 0, TRUE)
    \/ appletb_set_tb_worker_commit(0, TRUE)

TbKeysSpec == InitKeys /\ [][NextTbKeys]_vars

\* C34: while a function key of the touch bar is held, its release would be
\* emitted with the special code exactly if the special code is the one
\* held down, and no key code of a slot is held down once the key of the
\* slot is released. Violated: a press while the touch bar is off leaves
\* last_tb_keys_translated as the release before has set it.
C34_ReleaseMatchesPress ==
    \A slot \in DOMAIN last_tb_keys_pressed :
       /\ (active /\ last_tb_keys_pressed[slot]) =>
             (HidEmit(slot, 0, cur_tb_mode, cur_tb_disp,
                      appletb_get_cur_tb_mode(pnd_tb_mode, cur_tb_mode),
                      last_tb_keys_translated) = "emit_trnsl"
                 <=> <<slot, "trnsl">> \in tb_input_dev)
       /\ ~last_tb_keys_pressed[slot] =>
             /\ <<slot, "trnsl">> \notin tb_input_dev
             /\ <<slot, "plain">> \notin tb_input_dev

\* ---- key codes of the SPI keyboard ---------------------------------------

\* C35: every key code that keyboard_input_dev holds as down, KEY_FN aside,
\* is a code of a key that the last report holds, so that a code emitted as
\* pressed has been emitted as released once its key has left the report.
\* Violated: a held key is reported as pressed again with every report,
\* translated with the Fn state of that report, and the release uses the Fn
\* state of the last report only.
C35_PressedIsReleased ==
    \A key \in keyboard_input_dev \ {KEY_FN} :
       \E i \in RolloverSlots, fn_pressed \in {0, 1} :
          /\ last_keys_pressed[i] # 0
          /\ key = applespi_code_to_key(last_keys_pressed[i], fn_pressed)

\* ---- appletb_send_hid_report ---------------------------------------------

EPIPE == 32
ENODEV == 19
ENOMEM == 12

\* results of usb_control_msg: the pipe stalled, another error, no or one
\* byte transferred
UsbResults == {-EPIPE, -ENODEV, 0, 1}

\* usleep_range(1000 << tries, 3000 << tries): the times, in microseconds
\* and in steps of a millisecond, it can sleep
SleepTimes(tries) ==
    {us \in 1000 * 2 ^ tries .. 3000 * 2 ^ tries : us % 1000 = 0}

\* mutant of MoreTries: one more try
MoreTriesSix(tries) == tries < 6

\* appletb_send_hid_report: while (++tries < 5)
MoreTries(tries) == tries < 5

\* appletb_send_hid_report: return (rc > 0) ? 0 : rc
HidReportResult(rc) == IF rc > 0 THEN 0 ELSE rc

\* appletb_send_hid_report up to the loop; ok: kmemdup has returned a buffer
appletb_send_hid_report_begin(ok) ==
    /\ hr.pc = "idle"
    /\ hr' = IF ok
             THEN [HrIdle EXCEPT !.pc = "msg"]
             ELSE [HrIdle EXCEPT !.pc = "done", !.rc = -ENOMEM]
    /\ UNCHANGED <<active, mode_hdev, disp_hdev, last_tb_keys_pressed,
                   last_fn_pressed, elapsed, cur_tb_mode, pnd_tb_mode,
                   cur_tb_disp, pnd_tb_disp, tb_autopm_off, restore_autopm,
                   tb_work, dim_timeout, idle_timeout, dim_to_is_calc,
                   fn_mode, wk_pc, wk, dev_disp, store_einval, pmVars,
                   autopm_refs, upd_pc, tbrm_pc, tb_lock,
                   last_tb_keys_translated, tb_input_dev>>
    /\ UNCHANGED spiVars

\* usb_control_msg returns rc; any result but -EPIPE leaves the loop
usb_control_msg(rc) ==
    /\ hr.pc = "msg"
    /\ hr' = [hr EXCEPT !.rc = rc,
                        !.attempts = hr.attempts + 1,
                        !.pc = IF rc # -EPIPE THEN "done" ELSE "sleep"]
    /\ UNCHANGED <<active, mode_hdev, disp_hdev, last_tb_keys_pressed,
                   last_fn_pressed, elapsed, cur_tb_mode, pnd_tb_mode,
                   cur_tb_disp, pnd_tb_disp, tb_autopm_off, restore_autopm,
                   tb_work, dim_timeout, idle_timeout, dim_to_is_calc,
                   fn_mode, wk_pc, wk, dev_disp, store_einval, pmVars,
                   autopm_refs, upd_pc, tbrm_pc, tb_lock,
                   last_tb_keys_translated, tb_input_dev>>
    /\ UNCHANGED spiVars

\* usleep_range returns after us microseconds, then while (++tries < 5)
usleep_range(us) ==
    /\ hr.pc = "sleep"
    /\ us \in SleepTimes(hr.tries)
    /\ hr' = [hr EXCEPT !.slept = us,
                        !.tries = hr.tries + 1,
                        !.pc = IF MoreTries(hr.tries + 1)
                               THEN "msg" ELSE "done"]
    /\ UNCHANGED <<active, mode_hdev, disp_hdev, last_tb_keys_pressed,
                   last_fn_pressed, elapsed, cur_tb_mode, pnd_tb_mode,
                   cur_tb_disp, pnd_tb_disp, tb_autopm_off, restore_autopm,
                   tb_work, dim_timeout, idle_timeout, dim_to_is_calc,
                   fn_mode, wk_pc, wk, dev_disp, store_einval, pmVars,
                   autopm_refs, upd_pc, tbrm_pc, tb_lock,
                   last_tb_keys_translated, tb_input_dev>>
    /\ UNCHANGED spiVars

\* appletb_send_hid_report returns HidReportResult(rc)
appletb_send_hid_report_return ==
    /\ hr.pc = "done"
    /\ hr' = [HrIdle EXCEPT !.rc = HidReportResult(hr.rc)]
    /\ UNCHANGED <<active, mode_hdev, disp_hdev, last_tb_keys_pressed,
                   last_fn_pressed, elapsed, cur_tb_mode, pnd_tb_mode,
                   cur_tb_disp, pnd_tb_disp, tb_autopm_off, restore_autopm,
                   tb_work, dim_timeout, idle_timeout, dim_to_is_calc,
                   fn_mode, wk_pc, wk, dev_disp, store_einval, pmVars,
                   autopm_refs, upd_pc, tbrm_pc, tb_lock,
                   last_tb_keys_translated, tb_input_dev>>
    /\ UNCHANGED spiVars

\* One touch bar command after the other is sent.
NextTbReport ==
    \/ \E ok \in BOOLEAN : appletb_send_hid_report_begin(ok)
    \/ \E rc \in UsbResults : usb_control_msg(rc)
    \/ \E us \in UNION {SleepTimes(tries) : tries \in 0 .. 4} :
          usleep_range(us)
    \/ appletb_send_hid_report_return

TbReportSpec == Init /\ [][NextTbReport]_vars

\* usb_control_msg is called
TransportAttempt == hr'.attempts = hr.attempts + 1

\* C36: one command makes at most 5 calls of usb_control_msg; a call after
\* the first follows a result of -EPIPE and a sleep of 1000 << n to
\* 3000 << n microseconds, n the number of calls before the one that
\* stalled; any other result ends the loop at once.
C36_BoundedBackoff ==
    /\ [](hr.attempts <= 5)
    /\ [][(TransportAttempt /\ hr.attempts > 0) =>
             /\ hr.rc = -EPIPE
             /\ hr.slept >= 1000 * 2 ^ (hr.attempts - 1)
             /\ hr.slept <= 3000 * 2 ^ (hr.attempts - 1)]_vars
    /\ [][(TransportAttempt /\ hr'.rc # -EPIPE) => hr'.pc = "done"]_vars

\* C36 witness: the fifth call has stalled as well, and the command is
\* given up after the last sleep
C36_Witness ==
    /\ hr.pc = "done" /\ hr.attempts = 5 /\ hr.rc = -EPIPE
    /\ hr.slept >= 16000

\* ---- touchpad contacts ---------------------------------------------------

\* number of finger records of a touchpad packet (MAX_FINGERS in the code)
NumFingers == 3

MAX_FINGER_ORIENTATION == 16384

\* raw2int: a 16-bit little-endian value read as signed
raw2int(x) == IF x >= 32768 THEN x - 65536 ELSE x

\* the finger records that are read: abs_x 0 or -1, touch_major 0, 1 or 2,
\* orientation 0 or that of a point
TpFingers ==
    [abs_x : {0, 65535}, touch_major : {0, 1, 2},
     orientation : {0, MAX_FINGER_ORIENTATION}]

\* touchpad_protocol.fingers[] of the packets that are read
TpFrames == [1 .. NumFingers -> TpFingers]

\* report_tp_state, first loop: the fingers, in the order of the packet,
\* whose touch_major is not 0; their positions fill pos[0 .. n-1]
RECURSIVE TrackedFingers(_, _)
TrackedFingers(t, i) ==
    IF i = 0 THEN <<>>
    ELSE IF raw2int(t[i].touch_major) = 0 THEN TrackedFingers(t, i - 1)
    ELSE Append(TrackedFingers(t, i - 1), i)

\* report_tp_state, second loop: report_finger_data(pos[i], fingers[i]) for
\* i < n; pos_finger and axes_finger name the finger records the position
\* and the axes are read from
ReportedContacts(t) ==
    LET tracked == TrackedFingers(t, NumFingers)
    IN  [i \in 1 .. Len(tracked) |->
            [x |-> raw2int(t[tracked[i]].abs_x),
             touch_major |-> raw2int(t[i].touch_major) * 2,
             orientation |->
                 MAX_FINGER_ORIENTATION - raw2int(t[i].orientation),
             pos_finger |-> tracked[i],
             axes_finger |-> i]]

\* report_tp_state for the finger records t of a touchpad packet
report_tp_state(t) ==
    /\ touchpad_input_dev' = ReportedContacts(t)
    /\ UNCHANGED <<init_cmd_idx, want_cl_led_on, have_cl_led_on,
                   want_bl_level, have_bl_level, cmd_msg_cntr, cmd_msg_queued,
                   cmd_log_mask, tx_buffer, drain, read_active, write_active,
                   wr_m, rd_m, gpe_enabled, gpe_masked, resp_owed, rd_pc,
                   rm_pc, wr_err, last_keys_pressed, last_keys_fn_pressed,
                   kbd_last_fn_pressed, keyboard_input_dev, scancodes_read,
                   dev_seq>>
    /\ UNCHANGED tbVars

\* Touchpad packets are read one after the other.
NextSpiTp ==
    \/ \E t \in TpFrames : report_tp_state(t)

SpiTpSpec == Init /\ [][NextSpiTp]_vars

\* C37: every contact reported takes its axes and orientation from the
\* finger record its position is taken from, and that record has a
\* touch_major other than 0. Violated: the positions are packed into
\* pos[0 .. n-1], the axes are read from fingers[0 .. n-1].
C37_ContactOfOneFinger ==
    \A i \in DOMAIN touchpad_input_dev :
       /\ touchpad_input_dev[i].axes_finger = touchpad_input_dev[i].pos_finger
       /\ touchpad_input_dev[i].touch_major # 0

\* ---- C38: the lead of the derived dim edge ------------------------------

\* the dim timeout is derived from a positive idle timeout
DeriveMode == dim_to_is_calc /\ idle_timeout > 0

\* C38 as stated: for every idle_timeout > 0 in derive mode the dim edge
\* comes before the off edge by at most 30 s,
\* 0 < idle_timeout - dim_timeout <= 30
C38_DimBeforeOff ==
    DeriveMode =>
        /\ 0 < idle_timeout - dim_timeout
        /\ idle_timeout - dim_timeout <= APPLETB_MAX_DIM_TIME

\* C38 amended: for every idle_timeout > 0 in derive mode the lead of the dim
\* edge is min(30, idle_timeout / 3) with the division of integers, so
\* 0 <= idle_timeout - dim_timeout <= 30; the lead is positive from an idle
\* timeout of 3 s on and is 0 (the dim edge and the off edge coincide) for an
\* idle timeout of 1 s or 2 s
C38_DimLead ==
    DeriveMode =>
        /\ idle_timeout - dim_timeout
              = Min(APPLETB_MAX_DIM_TIME, idle_timeout \div 3)
        /\ 0 <= idle_timeout - dim_timeout
        /\ idle_timeout - dim_timeout <= APPLETB_MAX_DIM_TIME
        /\ (idle_timeout - dim_timeout = 0 <=> idle_timeout < 3)

\* an idle timeout of 2 s was written in derive mode: the dim timeout is 2 s
C38_Witness ==
    /\ DeriveMode
    /\ mode_hdev /\ disp_hdev
    /\ idle_timeout = 2
    /\ dim_timeout = 2

\* ---- suspend and resume while time passes -------------------------------
\* As NextTbPm, with the module parameters idle_timeout and dim_timeout
\* drawn from the values of the timeout path; time passes, the workqueue
\* runs due work within the second and the timeouts run out.
NextTbPmTimed ==
    \/ \E iface \in {"mode", "disp"}, def_idle \in IdleValues,
          def_dim \in IdleValues :
          /\ NoneSuspended
          /\ appletb_probe(iface, def_idle, def_dim, appletb_tb_def_fn_mode,
                           FALSE)
    \/ \E slot \in TbSlots, value \in KeyValues :
          appletb_hid_event(slot, value)
    \/ \E ev \in InpEvents : appletb_inp_event(ev[1], ev[2])
    \/ appletb_set_tb_worker_send(0, 0, TRUE)
    \/ appletb_set_tb_worker_commit(0, TRUE)
    \/ appletb_set_tb_worker_timeout
    \/ TickOnTime
    \/ \E iface \in {"mode", "disp"}, event \in PmEvents :
          appletb_suspend_lock(iface, event)
    \/ appletb_suspend_flush
    \/ appletb_suspend_send(0)
    \/ appletb_suspend_store
    \/ \E iface \in {"mode", "disp"} : appletb_reset_resume(iface)

TbPmTimedSpec == Init /\ [][NextTbPmTimed]_vars

\* ---- C39: nothing runs while the touch bar is suspended ------------------

\* appletb_suspend has returned for every bound interface and
\* appletb_reset_resume has not been called since; the controller is marked
\* inactive
SuspendComplete ==
    /\ sp.pc = "none"
    /\ mode_hdev /\ disp_hdev
    /\ mode_suspended /\ disp_suspended
    /\ ~active

\* a run of the worker starts
WorkerRunStarts == wk_pc = "idle" /\ wk_pc' # "idle"

\* C39: between the completion of suspend and the following resume, while
\* the controller is marked inactive, the worker does not run and no mode
\* or display command is sent to the device
C39_QuietWhileSuspended ==
    /\ [](SuspendComplete => wk_pc = "idle")
    /\ [][SuspendComplete => ~WorkerRunStarts /\ dev_disp' = dev_disp]_vars

\* ---- C40: the indexes of applespi_scancodes -------------------------------

\* largest value of a byte of keys_pressed[]
U8_MAX == 255

\* the values of a byte of keys_pressed[] that are told apart: the indexes
\* of applespi_scancodes and a value beyond the table
KeyBytes == KeyCodes \cup {U8_MAX}

\* keyboard frames with any bytes in keys_pressed[]
KbdByteFrames ==
    {[keys_pressed |-> keys, fn_pressed |-> fn, crc_16 |-> FrameCrc(keys, fn)] :
        keys \in [RolloverSlots -> KeyBytes], fn \in {0, 1}}

\* the interrupt, the end of the read it starts and the frames read
NextSpiKeys ==
    \/ applespi_notify
    \/ applespi_async_read_error
    \/ \E frame \in KbdByteFrames : applespi_got_data("keyb", frame)

SpiKeysSpec == Init /\ [][NextSpiKeys]_vars

\* C40: the keyboard translator never indexes applespi_scancodes outside
\* its bounds, for pressed keys and for released keys alike, whatever bytes
\* (0 .. 255) the keyboard reports contain
C40_ScancodeIndexInBounds ==
    \A code \in scancodes_read : code >= 0 /\ code < ScancodesSize

====
